---- MODULE Spec2Model ----
(***************************************************************************)
(* The transform worker: Worker, which routes a subtask to its handler,    *)
(* the datum subtask handler (handleDatumTask) with the per-datum pipeline *)
(* behind it (processDatum, mergeStats, uploadChunk,                       *)
(* uploadRecoveredDatums), the S3 gateway probe, and the merge subtask     *)
(* handler (handleMergeTask, fetchChunk, merge), as a state machine.       *)
(*                                                                         *)
(* One datum task is one goroutine started by eg.Go; its position is       *)
(* pc[d].  The object store, the hashtree caches and the driver are        *)
(* external: a call into them either succeeds or fails, and where the      *)
(* code handles the failure the model draws the outcome with \E.           *)
(* InspectTag answers whether the tag exists (its contract); whether a     *)
(* previous job left an object under a datum's tag is drawn when the tag   *)
(* is first inspected, and store holds the objects known to exist.         *)
(* A failed external call is a fault; a run has at most MaxFaults of them, *)
(* a run of the merge handler MaxMergeFaults.  The datum task merges its   *)
(* sub-stats under statsMutex in two steps, the reads and the writes.      *)
(* User code and the error command failing are not faults.                 *)
(***************************************************************************)
EXTENDS Integers, Sequences, FiniteSets, TLC

\* ---------------------------------------------------------------- bounds
NumDatums == 2      \* datums in the subtask's DatumInputsList
MaxTries == 2       \* PipelineInfo.DatumTries ranges over 0..MaxTries
MaxFaults == 1      \* failed external calls (object store, caches, driver) in one run
MaxMergeFaults == 2 \* the same for a run of the merge handler: two tasks can fail
MaxProbes == 2      \* requests of the S3 gateway probe before its backoff is used up
NumChunks == 2      \* chunks in a merge subtask's Hashtrees

Datums == 1..NumDatums
Chunks == 1..NumChunks

\* ------------------------------------------------------- names and tags
JobID == "job"
SubtaskID == "sub"
WorkerIP == "worker-ip"        \* os.Getenv(client.PPSWorkerIPEnv)
PeerIP == "peer-ip"            \* the address of the worker that produced a chunk
statsTagSuffix == "_stats"

\* A tag: kind carries the textual shape, in the datum's inputs (0 for a job tag).
MkTag(kind, job, sub, in) == [kind |-> kind, job |-> job, sub |-> sub, in |-> in]

\* The datum list of the subtask: datum d has the input list Inputs(d).
Inputs(d) == d
HashDatum(inputs) == MkTag("datum", "", "", inputs)
DatumID(inputs) == "datum-" \o ToString(inputs)
NoDatumID == ""

StatsTagOf(tag) == [tag EXCEPT !.kind = tag.kind \o statsTagSuffix]

jobRecoveredDatumsTag(jobID, subtaskID) == MkTag("-recovered-", jobID, subtaskID, 0)
jobChunkStatsTag(jobID, subtaskID) == MkTag("-chunk-stats-", jobID, subtaskID, 0)
jobChunkTag(jobID, subtaskID) == MkTag("-chunk-", jobID, subtaskID, 0)

\* HashtreeInfo{Address, Tag}; a nil pointer is NoInfo.
NoTag == MkTag("", "", "", 0)
NoInfo == [set |-> FALSE, Address |-> "", Tag |-> NoTag]
HashtreeInfo(address, tag) == [set |-> TRUE, Address |-> address, Tag |-> tag]

\* The chunks a merge subtask is given: chunk i was published by the datum subtask
\* SubtaskOf(i) under its chunk tag (its stats chunk tag for a stats merge); a chunk
\* of a run that failed earlier is left under StaleTag.
SubtaskOf(i) == "sub-" \o ToString(i)
HashtreeTag(stats, i) ==
  IF stats THEN jobChunkStatsTag(JobID, SubtaskOf(i)) ELSE jobChunkTag(JobID, SubtaskOf(i))
StaleTag(stats) ==
  IF stats THEN jobChunkStatsTag(JobID, "sub-stale") ELSE jobChunkTag(JobID, "sub-stale")

\* ------------------------------------------------------------ DatumStats
ZeroStats ==
  [DatumsProcessed |-> 0, DatumsSkipped |-> 0, DatumsFailed |-> 0,
   DatumsRecovered |-> 0, FailedDatumID |-> NoDatumID]

\* A faulty variant of mergeStats: the last failed datum wins.
mergeStatsLastWins(x, y) ==
  [DatumsProcessed |-> x.DatumsProcessed + y.DatumsProcessed,
   DatumsSkipped   |-> x.DatumsSkipped + y.DatumsSkipped,
   DatumsFailed    |-> x.DatumsFailed + y.DatumsFailed,
   DatumsRecovered |-> x.DatumsRecovered + y.DatumsRecovered,
   FailedDatumID   |-> IF y.FailedDatumID = NoDatumID THEN x.FailedDatumID
                       ELSE y.FailedDatumID]

\* mergeStats merges y into x
mergeStats(x, y) ==
  [DatumsProcessed |-> x.DatumsProcessed + y.DatumsProcessed,
   DatumsSkipped   |-> x.DatumsSkipped + y.DatumsSkipped,
   DatumsFailed    |-> x.DatumsFailed + y.DatumsFailed,
   DatumsRecovered |-> x.DatumsRecovered + y.DatumsRecovered,
   FailedDatumID   |-> IF x.FailedDatumID = NoDatumID THEN y.FailedDatumID
                       ELSE x.FailedDatumID]

\* ----------------------------------------------------------------- state
VARIABLES
  pipelineInfo,     \* driver.PipelineInfo(): S3Out, EnableStats, ErrCmd, DatumTries, MaxQueueSize
  store,            \* object store: the objects known to exist, as a set of [tag, body]
  datumCache,       \* subtask cache of datum output trees: set of [key, body]
  statsCache,       \* subtask cache of datum stats trees: set of [key, body]
  chunkCache,       \* the job's chunk cache: set of [key, body]
  chunkStatsCache,  \* the job's stats chunk cache: set of [key, body]
  data,             \* the DatumData outputs: Stats, ChunkHashtree, RecoveredDatumsTag, StatsHashtree
  recoveredDatums,  \* handleDatumTask's recoveredDatums slice
  hpc,              \* handleDatumTask's position
  retErr,           \* handleDatumTask's returned error
  cancelled,        \* the group context is done
  egErr,            \* errgroup's first error: the datum whose task returned it, 0 if none
  limiter,          \* tokens of the concurrency limiter in use
  queueSize,        \* the atomic queueSize counter
  activeData,       \* holder of the WithActiveData mutex, 0 if free
  faults,           \* failed external calls so far
  pc,               \* position of each datum task
  failures,         \* processDatum's failures counter
  subStats,         \* the DatumStats processDatum returns
  subRecovered,     \* the recovered tags processDatum returns
  subErr,           \* the error processDatum returns
  statsTree,        \* entries put into the datum's stats tree
  hist,             \* per datum: what was done for it (probe result, calls made)
  firstFailed,      \* the first datum merged into Stats with DatumsFailed set, 0 if none
  pubHist,          \* outcomes of the calls the handler made to publish
  wpc,              \* Worker's position
  subtask,          \* the work.Task: ID, Data
  received,         \* subtask.Data as Worker received it
  wErr,             \* Worker's returned error
  probes,           \* failed requests of the S3 gateway probe so far
  gatewayOK,        \* the S3 gateway probe has succeeded
  mergeData,        \* the MergeData: Stats, Hashtrees, Parent, Tree, TreeSize
  mpc,              \* handleMergeTask's position
  statsMutex,       \* handleDatumTask's statsMutex: the datum whose task holds it, or 0
  xStats,           \* per datum task: data.Stats as mergeStats read it after Lock()
  cachedIDs,        \* handleMergeTask's cachedIDs: cache.Keys() before the downloads
  dl,               \* per chunk: its download task (position, error, peer outcome, source)
  parent,           \* the parent task: position, error, parentReader
  megErr,           \* the download group's first error: the chunk whose task returned it
  mergeHist         \* what the merge step and the deferred parentReader.Close() did

vars ==
  <<pipelineInfo, store, datumCache, statsCache, chunkCache, chunkStatsCache, data,
    recoveredDatums, hpc, retErr, cancelled, egErr, limiter, queueSize, activeData,
    faults, pc, failures, subStats, subRecovered, subErr, statsTree, hist,
    firstFailed, pubHist, wpc, subtask, received, wErr, probes,
    gatewayOK, mergeData, mpc, cachedIDs, dl, parent, megErr, mergeHist,
    statsMutex, xStats>>

workerVars == <<wpc, subtask, received, wErr>>
gatewayVars == <<probes, gatewayOK>>
mergeVars == <<mergeData, mpc, cachedIDs, dl, parent, megErr, mergeHist>>
cfgVars == <<pipelineInfo>>
mutexVars == <<statsMutex, xStats>>
cacheVars == <<datumCache, statsCache>>
chunkVars == <<chunkCache, chunkStatsCache, pubHist>>
handlerVars == <<data, recoveredDatums, hpc, retErr>>
groupVars == <<egErr, limiter, queueSize, firstFailed>>
taskVars == <<pc, failures, subStats, subRecovered, subErr, statsTree, hist>>
\* What only the datum handler touches.
datumVars ==
  <<cfgVars, mutexVars, gatewayVars, cacheVars, data, recoveredDatums, hpc, cancelled, groupVars,
    activeData, taskVars, pubHist>>

S3Inputs == pipelineInfo.S3Inputs      \* ppsutil.ContainsS3Inputs(PipelineInfo().Input)
S3Out == pipelineInfo.S3Out
EnableStats == pipelineInfo.EnableStats
ErrCmd == pipelineInfo.ErrCmd
DatumTries == pipelineInfo.DatumTries
MaxQueueSize == pipelineInfo.MaxQueueSize

Tags(set) == {o.tag : o \in set}
Keys(cache) == {e.key : e \in cache}

\* Serialized bytes: a datum's output tree, its stats tree, a merged chunk (the set
\* of trees merged into it), the recovered-datum list (its hashes in order).
Body(of, tag, trees, hashes) == [of |-> of, tag |-> tag, trees |-> trees, hashes |-> hashes]
OutputTree(tag) == Body("output", tag, {}, <<>>)
StatsTree(tag) == Body("stats", tag, {}, <<>>)
Chunk(trees) == Body("chunk", NoTag, trees, <<>>)
RecoveredDatums(hashes) == Body("recovered", NoTag, {}, hashes)

\* Cache keys: a fresh uuid (drawn for datum d, n tells its draws apart) or a tag.
UuidKey(d, n) == [uuid |-> <<d, n>>, tag |-> NoTag]
TagKey(tag) == [uuid |-> <<0, 0>>, tag |-> tag]
\* MergeCache.Put(key, bytes)
CachePut(cache, key, body) == {e \in cache : e.key # key} \cup {[key |-> key, body |-> body]}
\* PutObject / PutObjectAsync(tags): the object is stored under the tag
StorePut(objects, tag, body) == {o \in objects : o.tag # tag} \cup {[tag |-> tag, body |-> body]}

\* Errors: nil, the sentinel errDatumRecovered, and any other error (which one it is
\* decides nothing in this code).
NoErr == "nil"
errDatumRecovered == "the datum errored, and the error was handled successfully"
Err == "error"

\* The outcomes an external call can have: any of them while faults are left, else
\* only success.  Fault(n) accounts for n failed calls in a step.
\* The failed external calls a run may have: the merge handler's run is small and
\* gets one more, so that two of its tasks can fail.
FaultBudget == IF mpc # "idle" THEN MaxMergeFaults ELSE MaxFaults
OKs == IF faults < FaultBudget THEN BOOLEAN ELSE {TRUE}
Outcomes(all, ok) == IF faults < FaultBudget THEN all ELSE {ok}
F(ok) == IF ok THEN 0 ELSE 1
Fault(n) == faults + n <= FaultBudget /\ faults' = faults + n

\* Nothing published yet: no call of uploadRecoveredDatums or uploadChunk was made.
NoPubHist == [rec |-> "none", chunk |-> "none", stats |-> "none"]

\* The bytes of a subtask payload: what they decode as, and the decoded message.
InitialData ==
  [Stats |-> ZeroStats, ChunkHashtree |-> NoInfo, RecoveredDatumsTag |-> NoTag,
   StatsHashtree |-> NoInfo]
NoObject == [set |-> FALSE, hash |-> Chunk({})]
Object(body) == [set |-> TRUE, hash |-> body]
NoMergeData ==
  [Stats |-> FALSE, Hashtrees |-> <<>>, Parent |-> FALSE, Tree |-> NoObject,
   TreeSize |-> 0]
Payload(kind, datum, merge) == [kind |-> kind, datum |-> datum, merge |-> merge]
serializeDatumData(datum) == Payload("datum", datum, NoMergeData)
deserializeDatumData(bytes) == [ok |-> bytes.kind = "datum", data |-> bytes.datum]
serializeMergeData(merge) == Payload("merge", InitialData, merge)
deserializeMergeData(bytes) == [ok |-> bytes.kind = "merge", data |-> bytes.merge]
\* The Data a failed serialization leaves: nil.
NilPayload == Payload("nil", InitialData, NoMergeData)
PayloadKinds == {"datum", "merge", "other"}

\* The bytes of the chunk published under a tag; a peer worker serves the same bytes
\* from its cache.
ChunkBytes(tag) == Body("chunk", tag, {}, <<>>)
\* The bytes of the parent commit's tree, and of the tree merge writes from the
\* cached chunks and the parent.
ParentTree == Body("parent", NoTag, {}, <<>>)
MergedTree(cache, withParent) ==
  Body("tree", NoTag, {e.body : e \in cache} \cup (IF withParent THEN {ParentTree} ELSE {}),
       <<>>)
\* hashtree.Writer.Size(), counted in trees written.
Size(body) == Cardinality(body.trees)

\* The merge subtasks: Stats, an address or none for each chunk, a parent or none.
MergeInputs ==
  {[Stats |-> stats,
    Hashtrees |-> [i \in Chunks |-> HashtreeInfo(addr[i], HashtreeTag(stats, i))],
    Parent |-> hasParent, Tree |-> NoObject, TreeSize |-> 0] :
     stats \in BOOLEAN, addr \in [Chunks -> {"", PeerIP}], hasParent \in BOOLEAN}
\* What the job's chunk cache may hold when the merge starts: chunk 1 from this run,
\* a chunk of a failed run.
LeftTags(stats) == {HashtreeTag(stats, 1), StaleTag(stats)}

\* The merge step has not run and parentReader.Close() was not called.
NoMergeHist == [merge |-> "none", close |-> "none"]
\* A download task not started, and no parent task.
NoDownload ==
  [pc |-> "idle", err |-> NoErr, peer |-> "none", src |-> "none", sawErr |-> FALSE]
NoParent == [pc |-> "idle", err |-> NoErr, reader |-> "nil", closes |-> 0]

\* Worker's error for a payload that decodes as nothing known.
ErrUnrecognized == "worker task format unrecognized"

\* The pipeline of a subtask that is no datum subtask: its settings are not read.
DefaultInfo ==
  [S3Inputs |-> FALSE, S3Out |-> FALSE, EnableStats |-> FALSE, ErrCmd |-> FALSE,
   DatumTries |-> 1, MaxQueueSize |-> 1]

ZeroHist ==
  [hit |-> FALSE, statsMiss |-> FALSE, attempts |-> 0, userRuns |-> 0, errRuns |-> 0,
   handlerOK |-> FALSE, failureEntry |-> "none"]

Init ==
  /\ \E kind \in PayloadKinds :
       /\ \E m \in (IF kind = "merge" THEN MergeInputs ELSE {NoMergeData}) :
            subtask = [ID |-> SubtaskID, Data |-> Payload(kind, InitialData, m)]
       /\ pipelineInfo \in
            IF kind = "datum"
              THEN [S3Inputs : BOOLEAN, S3Out : BOOLEAN, EnableStats : BOOLEAN,
                    ErrCmd : BOOLEAN, DatumTries : 0..MaxTries,
                    MaxQueueSize : 1..NumDatums]
              ELSE {DefaultInfo}
       /\ \E left \in (IF kind = "merge" THEN SUBSET LeftTags(subtask.Data.merge.Stats)
                                         ELSE {{}}) :
            LET cache == {[key |-> TagKey(t), body |-> ChunkBytes(t)] : t \in left} IN
              /\ chunkCache = IF subtask.Data.merge.Stats THEN {} ELSE cache
              /\ chunkStatsCache = IF subtask.Data.merge.Stats THEN cache ELSE {}
  /\ received = subtask.Data
  /\ wpc = "start"
  /\ wErr = NoErr
  /\ probes = 0
  /\ gatewayOK = FALSE
  /\ store = {}
  /\ datumCache = {}
  /\ statsCache = {}
  /\ data = InitialData
  /\ mergeData = NoMergeData
  /\ mpc = "idle"
  /\ cachedIDs = {}
  /\ dl = [i \in Chunks |-> NoDownload]
  /\ parent = NoParent
  /\ megErr = 0
  /\ mergeHist = NoMergeHist
  /\ recoveredDatums = <<>>
  /\ hpc = "idle"
  /\ retErr = NoErr
  /\ cancelled = FALSE
  /\ egErr = 0
  /\ limiter = 0
  /\ queueSize = 0
  /\ activeData = 0
  /\ faults = 0
  /\ pc = [d \in Datums |-> "idle"]
  /\ failures = [d \in Datums |-> 0]
  /\ subStats = [d \in Datums |-> ZeroStats]
  /\ subRecovered = [d \in Datums |-> <<>>]
  /\ subErr = [d \in Datums |-> NoErr]
  /\ statsTree = [d \in Datums |-> {}]
  /\ hist = [d \in Datums |-> ZeroHist]
  /\ firstFailed = 0
  /\ pubHist = NoPubHist
  /\ statsMutex = 0
  /\ xStats = [d \in Datums |-> ZeroStats]

\* ----------------------------------------------------------------- Worker
\* Worker decodes the payload: DatumData goes to handleDatumTask, anything else that
\* decodes as nothing known is refused.
\* handleDatumTask checks the S3 gateway first if the pipeline has S3 inputs or
\* S3Out.  The first variant looks at S3Out only.
ChecksS3GatewayOnlyForS3Out == S3Out

ChecksS3Gateway == S3Inputs \/ S3Out

\* Worker that returns nil for a payload that decodes as nothing known.
DispatchSilent ==
  /\ wpc = "start"
  /\ LET d == deserializeDatumData(subtask.Data)
         m == deserializeMergeData(subtask.Data) IN
     IF d.ok
       THEN /\ wpc' = "datum"
            /\ data' = d.data
            /\ hpc' = IF ChecksS3Gateway THEN "gateway" ELSE "start"
            /\ UNCHANGED <<wErr, mergeData, mpc>>
       ELSE IF m.ok
         THEN /\ wpc' = "merge"
              /\ mergeData' = m.data
              /\ mpc' = "start"
              /\ UNCHANGED <<wErr, data, hpc>>
         ELSE /\ wpc' = "returned"
              /\ wErr' = NoErr
              /\ UNCHANGED <<data, hpc, mergeData, mpc>>
  /\ UNCHANGED <<cfgVars, mutexVars, cachedIDs, dl, parent, megErr, mergeHist, subtask, received,
                 gatewayVars, store, cacheVars, chunkVars, recoveredDatums, retErr,
                 cancelled, groupVars, activeData, faults, taskVars>>

Dispatch ==
  /\ wpc = "start"
  /\ LET d == deserializeDatumData(subtask.Data)
         m == deserializeMergeData(subtask.Data) IN
     IF d.ok
       THEN /\ wpc' = "datum"
            /\ data' = d.data
            /\ hpc' = IF ChecksS3Gateway THEN "gateway" ELSE "start"
            /\ UNCHANGED <<wErr, mergeData, mpc>>
       ELSE IF m.ok
         THEN /\ wpc' = "merge"
              /\ mergeData' = m.data
              /\ mpc' = "start"
              /\ UNCHANGED <<wErr, data, hpc>>
         ELSE /\ wpc' = "returned"
              /\ wErr' = ErrUnrecognized
              /\ UNCHANGED <<data, hpc, mergeData, mpc>>
  /\ UNCHANGED <<cfgVars, mutexVars, cachedIDs, dl, parent, megErr, mergeHist, subtask, received,
                 gatewayVars, store, cacheVars, chunkVars, recoveredDatums, retErr,
                 cancelled, groupVars, activeData, faults, taskVars>>

\* The handler returned err to Worker, after nf external calls failed in this step,
\* and bytes is what its payload serializes to: the error is returned, or the
\* payload is encoded again and written into the subtask.  The first variant writes
\* the payload back whatever the handler returned.
WorkerReturnAlwaysWrites(err, bytes, nf) ==
  /\ wpc' = "returned"
  /\ received' = received
  /\ subtask' = [subtask EXCEPT !.Data = bytes]
  /\ wErr' = err
  /\ Fault(nf)

WorkerReturn(err, bytes, nf) ==
  /\ wpc' = "returned"
  /\ received' = received
  /\ IF err # NoErr
       THEN wErr' = err /\ subtask' = subtask /\ Fault(nf)
       ELSE \E encodeOK \in (IF faults + nf < FaultBudget THEN BOOLEAN ELSE {TRUE}) :
              /\ Fault(nf + F(encodeOK))
              /\ subtask' = [subtask EXCEPT !.Data = IF encodeOK
                                                      THEN bytes
                                                      ELSE NilPayload]
              /\ wErr' = IF encodeOK THEN NoErr ELSE Err

\* ------------------------------------------------------- S3 gateway probe
\* backoff.New60sBackOff(): the retry loop ends once its backoff is used up, after n
\* failed requests.
BackOffExhausted(n) == n >= MaxProbes

\* One request of checkS3Gateway's retry loop.  A failed request is notified (logged)
\* and retried until the backoff is used up, then the last error is returned.
checkS3Gateway ==
  /\ hpc = "gateway"
  /\ \E ok \in BOOLEAN :
       IF ok
         THEN /\ hpc' = "start"
              /\ gatewayOK' = TRUE
              /\ probes' = 0
              /\ UNCHANGED <<retErr, workerVars, faults>>
         ELSE /\ probes' = probes + 1
              /\ UNCHANGED gatewayOK
              /\ IF BackOffExhausted(probes + 1)
                   THEN /\ hpc' = "returned"
                        /\ retErr' = Err
                        /\ WorkerReturn(Err, serializeDatumData(data), 0)
                   ELSE UNCHANGED <<hpc, retErr, workerVars, faults>>
  /\ UNCHANGED <<cfgVars, mutexVars, mergeVars, store, cacheVars, chunkVars, data, recoveredDatums,
                 cancelled, groupVars, activeData, taskVars>>

\* ------------------------------------------------------- handleDatumTask
\* Entry of handleDatumTask up to the first callback of forEachDatum: the datum caches
\* are acquired, data.Stats is initialised, the datum list object is read.
Begin ==
  /\ hpc = "start"
  /\ data' = [data EXCEPT !.Stats = ZeroStats]
  /\ \E readOK \in OKs :
       IF readOK
         THEN /\ hpc' = "iterate"
              /\ UNCHANGED <<retErr, cancelled, workerVars, faults>>
         ELSE \* forEachDatum failed: cancel(), eg.Wait(), return err
              /\ hpc' = "returned"
              /\ retErr' = Err
              /\ cancelled' = TRUE
              /\ WorkerReturn(Err, serializeDatumData(data'), 1)
  /\ UNCHANGED <<cfgVars, mutexVars, mergeVars, gatewayVars, store, cacheVars, chunkVars, recoveredDatums, groupVars,
                 activeData, taskVars>>

\* The forEachDatum callback for datum d: limiter.Acquire(), queueSize++, eg.Go(task).
\* Datums are submitted in list order.  The first variant does not wait for the
\* limiter.
SubmitWithoutLimiter(d) ==
  /\ hpc = "iterate"
  /\ pc[d] = "idle"
  /\ \A e \in Datums : e < d => pc[e] # "idle"
  /\ limiter' = limiter + 1
  /\ queueSize' = queueSize + 1
  /\ pc' = [pc EXCEPT ![d] = "probe"]
  /\ UNCHANGED <<cfgVars, mutexVars, mergeVars, workerVars, gatewayVars, store, cacheVars, chunkVars,
                 handlerVars, cancelled, egErr, firstFailed, activeData, faults, failures,
                 subStats, subRecovered, subErr, statsTree, hist>>

\* A faulty variant of the callback: it gives up once the context is cancelled.
SubmitUnlessCancelled(d) ==
  /\ hpc = "iterate"
  /\ ~cancelled
  /\ pc[d] = "idle"
  /\ \A e \in Datums : e < d => pc[e] # "idle"
  /\ limiter < MaxQueueSize
  /\ limiter' = limiter + 1
  /\ queueSize' = queueSize + 1
  /\ pc' = [pc EXCEPT ![d] = "probe"]
  /\ UNCHANGED <<cfgVars, mutexVars, mergeVars, workerVars, gatewayVars, store, cacheVars,
                 chunkVars, handlerVars, cancelled, egErr, firstFailed, activeData,
                 faults, failures, subStats, subRecovered, subErr, statsTree, hist>>

Submit(d) ==
  /\ hpc = "iterate"
  /\ pc[d] = "idle"
  /\ \A e \in Datums : e < d => pc[e] # "idle"
  /\ limiter < MaxQueueSize
  /\ limiter' = limiter + 1
  /\ queueSize' = queueSize + 1
  /\ pc' = [pc EXCEPT ![d] = "probe"]
  /\ UNCHANGED <<cfgVars, mutexVars, mergeVars, workerVars, gatewayVars, store, cacheVars, chunkVars, handlerVars, cancelled, egErr,
                 firstFailed, activeData, faults, failures, subStats, subRecovered, subErr,
                 statsTree, hist>>

\* ----------------------------------------------------------- processDatum
Tag(d) == HashDatum(Inputs(d))

\* The DatumStats and recovered tags processDatum returns for the error the retry
\* loop ended with: errDatumRecovered, another error, or none.
Classify(d, loopErr) ==
  IF loopErr = errDatumRecovered
    THEN [stats |-> [ZeroStats EXCEPT !.DatumsRecovered = 1], recovered |-> <<Tag(d)>>]
    ELSE IF loopErr # NoErr
      THEN [stats |-> [ZeroStats EXCEPT !.FailedDatumID = DatumID(Inputs(d)),
                                        !.DatumsFailed = 1],
            recovered |-> <<>>]
      ELSE [stats |-> [ZeroStats EXCEPT !.DatumsProcessed = 1], recovered |-> <<>>]

\* The error handler runs when user code failed, an error command is configured and
\* this is the last try.
RunsErrCmd(errCmd, nFailures, datumTries) == errCmd /\ nFailures = datumTries - 1

\* A faulty variant of the retry callback's test: one try too many.
GivesUpOneLate(nFailures, datumTries) == nFailures > datumTries

\* The retry callback's test after failures++: give up.
GivesUp(nFailures, datumTries) == nFailures >= datumTries

\* RetryUntilCancel after a failed try the callback let pass: it may stop only if the
\* context is done (the zero backoff's timer is ready as well).
MayStop(ctxDone) == IF ctxDone THEN BOOLEAN ELSE {FALSE}

\* processDatum returned (stats, recovered, err) to the datum task, which goes on to
\* statsMutex.Lock().
ProcessDatumReturn(d, stats, recovered, err) ==
  /\ pc' = [pc EXCEPT ![d] = "merge"]
  /\ subStats' = [subStats EXCEPT ![d] = stats]
  /\ subRecovered' = [subRecovered EXCEPT ![d] = recovered]
  /\ subErr' = [subErr EXCEPT ![d] = err]
  /\ UNCHANGED <<handlerVars, cancelled, groupVars>>

\* The tail of the datum task, with the values mergeStats read from data.Stats: the
\* sums are written and, if err is nil, the recovered tags appended; then the
\* deferred Unlock(), queueSize-- and limiter.Release().  A returned error is the
\* group's first error if there was none, and cancels the group context.
TaskReturnCancelsOnFailed(d, stats, recovered, err) ==
  /\ pc' = [pc EXCEPT ![d] = "done"]
  /\ subStats' = [subStats EXCEPT ![d] = stats]
  /\ subRecovered' = [subRecovered EXCEPT ![d] = recovered]
  /\ subErr' = [subErr EXCEPT ![d] = err]
  /\ data' = [data EXCEPT !.Stats = mergeStats(xStats[d], stats)]
  /\ firstFailed' = IF firstFailed = 0 /\ stats.DatumsFailed > 0 THEN d ELSE firstFailed
  /\ IF err # NoErr
       THEN /\ egErr' = IF egErr = 0 THEN d ELSE egErr
            /\ cancelled' = TRUE
            /\ UNCHANGED recoveredDatums
       ELSE /\ recoveredDatums' = recoveredDatums \o recovered
            /\ cancelled' = (cancelled \/ stats.DatumsFailed > 0)
            /\ UNCHANGED egErr
  /\ queueSize' = queueSize - 1
  /\ limiter' = limiter - 1
  /\ UNCHANGED <<hpc, retErr>>

TaskReturn(d, stats, recovered, err) ==
  /\ pc' = [pc EXCEPT ![d] = "done"]
  /\ subStats' = [subStats EXCEPT ![d] = stats]
  /\ subRecovered' = [subRecovered EXCEPT ![d] = recovered]
  /\ subErr' = [subErr EXCEPT ![d] = err]
  /\ data' = [data EXCEPT !.Stats = mergeStats(xStats[d], stats)]
  /\ firstFailed' = IF firstFailed = 0 /\ stats.DatumsFailed > 0 THEN d ELSE firstFailed
  /\ IF err # NoErr
       THEN /\ egErr' = IF egErr = 0 THEN d ELSE egErr
            /\ cancelled' = TRUE
            /\ UNCHANGED recoveredDatums
       ELSE /\ recoveredDatums' = recoveredDatums \o recovered
            /\ UNCHANGED <<egErr, cancelled>>
  /\ queueSize' = queueSize - 1
  /\ limiter' = limiter - 1
  /\ UNCHANGED <<hpc, retErr>>

\* Outcomes of the external calls of writeStats: everything written; an error before
\* the stats object is written; the object written and the cache Put failed.
WriteStatsOutcomes == {"ok", "early", "late"}

\* writeStats for datum d: the stats and logs entries, the stats object, the cache
\* entry keyed by the datum's tag.  Result: tree, object store, stats cache, error.
\* The first variant uploads the object and leaves the cache alone.
writeStatsWithoutCache(d, tree, objects, cache, outcome) ==
  IF outcome = "early"
    THEN [tree |-> tree, store |-> objects, statsCache |-> cache, err |-> Err]
    ELSE [tree |-> tree \cup {"stats", "logs"},
          store |-> StorePut(objects, StatsTagOf(Tag(d)), StatsTree(Tag(d))),
          statsCache |-> cache,
          err |-> IF outcome = "ok" THEN NoErr ELSE Err]

writeStats(d, tree, objects, cache, outcome) ==
  IF outcome = "early"
    THEN [tree |-> tree, store |-> objects, statsCache |-> cache, err |-> Err]
    ELSE [tree |-> tree \cup {"stats", "logs"},
          store |-> StorePut(objects, StatsTagOf(Tag(d)), StatsTree(Tag(d))),
          statsCache |-> IF outcome = "ok"
                           THEN CachePut(cache, TagKey(Tag(d)), StatsTree(Tag(d)))
                           ELSE cache,
          err |-> IF outcome = "ok" THEN NoErr ELSE Err]

\* processDatum returns after the retry loop ended with loopErr: the outcome is
\* classified and, with stats enabled, the deferred writeStats runs; then the task's
\* tail.  store1, cache1 are the object store and datum cache as this step left
\* them so far, f the failures counter, tree the stats tree, h the datum's history,
\* nf the external calls that failed in this step so far.
Return(d, loopErr, f, tree, store1, cache1, h, nf) ==
  LET c == Classify(d, loopErr) IN
  /\ failures' = [failures EXCEPT ![d] = f]
  /\ hist' = [hist EXCEPT ![d] = h]
  /\ datumCache' = cache1
  /\ \E ws \in (IF EnableStats THEN Outcomes(WriteStatsOutcomes, "ok") ELSE {"ok"}) :
       LET w == IF EnableStats THEN writeStats(d, tree, store1, statsCache, ws)
                ELSE [tree |-> tree, store |-> store1, statsCache |-> statsCache,
                      err |-> NoErr] IN
       /\ statsTree' = [statsTree EXCEPT ![d] = w.tree]
       /\ store' = w.store
       /\ statsCache' = w.statsCache
       /\ Fault(nf + F(w.err = NoErr))
       /\ ProcessDatumReturn(d, c.stats, c.recovered, w.err)

\* Writing the failure entry in the retry callback: written; PutObject failed (logged,
\* the try's error is returned); InspectObject or DecodeHash failed (that error is
\* returned in place of the try's).
FailureEntryOutcomes == {"ok", "putFailed", "inspectFailed"}

\* One try of the retry loop ended with opErr (an error, or errDatumRecovered): the
\* retry callback counts it and either gives up, writing the failure entry when there
\* is a stats tree, or lets RetryUntilCancel go on, which stops if the context is done.
\* A faulty variant: no failure entry for the recovered sentinel.
PutFailureEntryUnlessRecovered(tree, fe, opErr) ==
  IF fe = "ok" /\ opErr # errDatumRecovered THEN tree \cup {"failure"} ELSE tree

\* statsTree.PutFile("failure", ...) once the error text is stored and inspected,
\* whatever error the try ended with.
PutFailureEntry(tree, fe, opErr) == IF fe = "ok" THEN tree \cup {"failure"} ELSE tree

Retry(d, opErr, store1, h, nf) ==
  LET f == failures[d] + 1 IN
  IF GivesUp(f, DatumTries)
    THEN \E fe \in (IF EnableStats THEN Outcomes(FailureEntryOutcomes, "ok") ELSE {"none"}) :
           Return(d, IF fe = "inspectFailed" THEN Err ELSE opErr, f,
                  PutFailureEntry(statsTree[d], fe, opErr),
                  store1, datumCache, [h EXCEPT !.failureEntry = fe],
                  nf + F(fe \in {"ok", "none"}))
    ELSE \E stop \in MayStop(cancelled) :
           IF stop
             THEN Return(d, Err, f, statsTree[d], store1, datumCache, h, nf)
             ELSE /\ Fault(nf)
                  /\ pc' = [pc EXCEPT ![d] = "stage"]
                  /\ failures' = [failures EXCEPT ![d] = f]
                  /\ hist' = [hist EXCEPT ![d] = h]
                  /\ store' = store1
                  /\ UNCHANGED <<cacheVars, subStats, subRecovered, subErr, statsTree,
                                 handlerVars, cancelled, groupVars>>

\* A faulty variant of the cache-hit path: the fetched tree is not put into datumCache.
CacheHitWithoutPut(d, getOK, putOK, statsGetOK, statsPutOK) ==
  [datumCache |-> datumCache, statsCache |-> statsCache,
   stats |-> IF getOK THEN [ZeroStats EXCEPT !.DatumsSkipped = 1] ELSE ZeroStats,
   err |-> IF getOK THEN NoErr ELSE Err, nf |-> F(getOK)]

\* The cache-hit path of processDatum: fetch the tree into datumCache under a fresh
\* key and, with stats enabled, the stats tree into the stats cache.  Result: the
\* caches, and the stats and error returned.
CacheHit(d, getOK, putOK, statsGetOK, statsPutOK) ==
  LET skipped == [ZeroStats EXCEPT !.DatumsSkipped = 1]
      cache1 == CachePut(datumCache, UuidKey(d, 0), OutputTree(Tag(d)))
      R(dc, sc, st, err) == [datumCache |-> dc, statsCache |-> sc, stats |-> st, err |-> err,
                             nf |-> F(err = NoErr)] IN
  IF ~getOK THEN R(datumCache, statsCache, ZeroStats, Err)
  ELSE IF ~putOK THEN R(datumCache, statsCache, ZeroStats, Err)
  ELSE IF ~EnableStats THEN R(cache1, statsCache, skipped, NoErr)
  ELSE IF ~statsGetOK
    THEN \* "We are okay with not finding the stats hashtree."
         R(cache1, statsCache, ZeroStats, NoErr)
  ELSE IF ~statsPutOK THEN R(cache1, statsCache, ZeroStats, Err)
  ELSE R(cache1, CachePut(statsCache, UuidKey(d, 0), StatsTree(Tag(d))), skipped, NoErr)

\* statsMutex.Lock() and the reads of mergeStats's += on data.Stats.  The first
\* variant merges without the mutex.
LockWithoutMutex(d) ==
  /\ pc[d] = "merge"
  /\ statsMutex' = d
  /\ xStats' = [xStats EXCEPT ![d] = data.Stats]
  /\ pc' = [pc EXCEPT ![d] = "locked"]
  /\ UNCHANGED <<cfgVars, mergeVars, workerVars, gatewayVars, store, cacheVars, chunkVars,
                 handlerVars, cancelled, groupVars, activeData, faults, failures,
                 subStats, subRecovered, subErr, statsTree, hist>>

Lock(d) ==
  /\ pc[d] = "merge"
  /\ statsMutex = 0
  /\ statsMutex' = d
  /\ xStats' = [xStats EXCEPT ![d] = data.Stats]
  /\ pc' = [pc EXCEPT ![d] = "locked"]
  /\ UNCHANGED <<cfgVars, mergeVars, workerVars, gatewayVars, store, cacheVars, chunkVars,
                 handlerVars, cancelled, groupVars, activeData, faults, failures,
                 subStats, subRecovered, subErr, statsTree, hist>>

\* The writes of mergeStats, the append of the recovered tags and the task's return,
\* which unlocks statsMutex.
TaskEnd(d) ==
  /\ pc[d] = "locked"
  /\ TaskReturn(d, subStats[d], subRecovered[d], subErr[d])
  /\ statsMutex' = 0
  /\ xStats' = [xStats EXCEPT ![d] = ZeroStats]
  /\ UNCHANGED <<cfgVars, mergeVars, workerVars, gatewayVars, store, cacheVars, chunkVars,
                 activeData, faults, failures, statsTree, hist>>

\* The datum task could not construct its logger: it returns the error before
\* processDatum is called and nothing is merged.
LoggerFailKeepsToken(d) ==
  /\ pc[d] = "probe"
  /\ Fault(1)
  /\ pc' = [pc EXCEPT ![d] = "done"]
  /\ subErr' = [subErr EXCEPT ![d] = Err]
  /\ egErr' = IF egErr = 0 THEN d ELSE egErr
  /\ cancelled' = TRUE
  /\ UNCHANGED <<cfgVars, mutexVars, mergeVars, workerVars, gatewayVars, store, cacheVars, chunkVars,
                 handlerVars, activeData, failures, subStats, subRecovered, statsTree,
                 hist, firstFailed, queueSize, limiter>>

LoggerFail(d) ==
  /\ pc[d] = "probe"
  /\ Fault(1)
  /\ pc' = [pc EXCEPT ![d] = "done"]
  /\ subErr' = [subErr EXCEPT ![d] = Err]
  /\ egErr' = IF egErr = 0 THEN d ELSE egErr
  /\ cancelled' = TRUE
  /\ queueSize' = queueSize - 1
  /\ limiter' = limiter - 1
  /\ UNCHANGED <<cfgVars, mutexVars, mergeVars, workerVars, gatewayVars, store, cacheVars, chunkVars, handlerVars, activeData, failures,
                 subStats, subRecovered, statsTree, hist, firstFailed>>

\* processDatum up to the retry loop: the cache probe and, on a miss, the set-up of
\* the stats tree.
Probe(d) ==
  /\ pc[d] = "probe"
  /\ \E present \in (IF Tag(d) \in Tags(store) THEN {TRUE} ELSE BOOLEAN) :
       IF present
         THEN \* InspectTag found the tag
              \E getOK \in OKs, putOK \in OKs, statsGetOK \in BOOLEAN, statsPutOK \in OKs :
                LET r == CacheHit(d, getOK, putOK, statsGetOK, statsPutOK)
                    store1 == StorePut(store, Tag(d), OutputTree(Tag(d))) IN
                /\ store' = IF EnableStats /\ getOK /\ putOK /\ statsGetOK
                              THEN StorePut(store1, StatsTagOf(Tag(d)), StatsTree(Tag(d)))
                              ELSE store1
                /\ datumCache' = r.datumCache
                /\ statsCache' = r.statsCache
                /\ hist' = [hist EXCEPT ![d] =
                              [@ EXCEPT !.hit = TRUE,
                                        !.statsMiss = EnableStats /\ getOK /\ putOK
                                                      /\ ~statsGetOK]]
                /\ Fault(r.nf)
                /\ ProcessDatumReturn(d, r.stats, <<>>, r.err)
                /\ UNCHANGED <<failures, statsTree>>
         ELSE \E initOK \in (IF EnableStats THEN OKs ELSE {TRUE}) :
                IF ~initOK
                  THEN \* putting the index object failed, before writeStats is deferred
                       /\ Fault(1)
                       /\ ProcessDatumReturn(d, ZeroStats, <<>>, Err)
                       /\ UNCHANGED <<store, cacheVars, failures, statsTree, hist>>
                  ELSE /\ pc' = [pc EXCEPT ![d] = "stage"]
                       /\ statsTree' = [statsTree EXCEPT ![d] =
                                          IF EnableStats THEN {"job", "index"} ELSE {}]
                       /\ UNCHANGED <<store, cacheVars, failures, subStats, subRecovered,
                                      subErr, hist, handlerVars, cancelled, groupVars,
                                      faults>>
  /\ UNCHANGED <<cfgVars, mutexVars, mergeVars, workerVars, gatewayVars, chunkVars, activeData>>

\* WithData failed to download the inputs: the try ends with that error.
StageFail(d) ==
  /\ pc[d] = "stage"
  /\ faults < MaxFaults
  /\ Retry(d, Err, store, [hist[d] EXCEPT !.attempts = @ + 1], 1)
  /\ UNCHANGED <<cfgVars, mutexVars, mergeVars, workerVars, gatewayVars, chunkVars, activeData>>

\* WithData has staged the inputs and WithActiveData takes the mutex: user code starts.
\* The first variant runs user code without WithActiveData.
EnterActiveWithoutMutex(d) ==
  /\ pc[d] = "stage"
  /\ activeData' = d
  /\ pc' = [pc EXCEPT ![d] = "active"]
  /\ hist' = [hist EXCEPT ![d] = [@ EXCEPT !.attempts = @ + 1]]
  /\ UNCHANGED <<cfgVars, mutexVars, mergeVars, workerVars, gatewayVars, store, cacheVars, chunkVars,
                 handlerVars, cancelled, groupVars, faults, failures, subStats,
                 subRecovered, subErr, statsTree>>

EnterActive(d) ==
  /\ pc[d] = "stage"
  /\ activeData = 0
  /\ activeData' = d
  /\ pc' = [pc EXCEPT ![d] = "active"]
  /\ hist' = [hist EXCEPT ![d] = [@ EXCEPT !.attempts = @ + 1]]
  /\ UNCHANGED <<cfgVars, mutexVars, mergeVars, workerVars, gatewayVars, store, cacheVars, chunkVars, handlerVars, cancelled, groupVars,
                 faults, failures, subStats, subRecovered, subErr, statsTree>>

\* After user code succeeded, outside the active section: UploadOutput and the Put
\* into datumCache, skipped for an S3Out pipeline.  Result: store, cache, error.
StoreOutput(d, s3Out, uploadOK, putOK) ==
  LET R(st, dc, err) == [store |-> st, datumCache |-> dc, err |-> err, nf |-> F(err = NoErr)]
      store1 == StorePut(store, Tag(d), OutputTree(Tag(d))) IN
  IF s3Out THEN R(store, datumCache, NoErr)
  ELSE IF ~uploadOK THEN R(store, datumCache, Err)
  ELSE IF ~putOK THEN R(store1, datumCache, Err)
  ELSE R(store1, CachePut(datumCache, UuidKey(d, hist[d].attempts), OutputTree(Tag(d))),
         NoErr)

\* RunUserCode returned.  On failure in the last try with an error command the error
\* handler is started inside the same active section; otherwise the active section
\* is left and the try ends.
UserCodeDone(d) ==
  /\ pc[d] = "active"
  /\ \E ok \in BOOLEAN :
       LET h == [hist[d] EXCEPT !.userRuns = @ + 1] IN
       IF ok
         THEN \E uploadOK \in (IF S3Out THEN {TRUE} ELSE OKs),
                 putOK \in (IF S3Out THEN {TRUE} ELSE OKs) :
                LET r == StoreOutput(d, S3Out, uploadOK, putOK) IN
                /\ activeData' = 0
                /\ IF r.err = NoErr
                     THEN Return(d, NoErr, failures[d], statsTree[d], r.store, r.datumCache,
                                 h, 0)
                     ELSE Retry(d, r.err, r.store, h, r.nf)
         ELSE IF RunsErrCmd(ErrCmd, failures[d], DatumTries)
           THEN /\ pc' = [pc EXCEPT ![d] = "errcmd"]
                /\ hist' = [hist EXCEPT ![d] = h]
                /\ UNCHANGED <<activeData, store, cacheVars, failures, subStats,
                               subRecovered, subErr, statsTree, handlerVars, cancelled,
                               groupVars, faults>>
           ELSE /\ activeData' = 0
                /\ Retry(d, Err, store, h, 0)
  /\ UNCHANGED <<cfgVars, mutexVars, mergeVars, workerVars, gatewayVars, chunkVars>>

\* RunUserErrorHandlingCode returned: success is errDatumRecovered, failure an error.
ErrCmdDone(d) ==
  /\ pc[d] = "errcmd"
  /\ \E ok \in BOOLEAN :
       LET h == [hist[d] EXCEPT !.errRuns = @ + 1, !.handlerOK = ok] IN
       /\ activeData' = 0
       /\ Retry(d, IF ok THEN errDatumRecovered ELSE Err, store, h, 0)
  /\ UNCHANGED <<cfgVars, mutexVars, mergeVars, workerVars, gatewayVars, chunkVars>>

\* The subtask's context is cancelled from outside while the handler runs.
Cancel ==
  /\ hpc = "iterate"
  /\ ~cancelled
  /\ cancelled' = TRUE
  /\ UNCHANGED <<cfgVars, mutexVars, mergeVars, workerVars, gatewayVars, store, cacheVars, chunkVars, handlerVars, groupVars, activeData,
                 faults, taskVars>>

\* ------------------------------------------------------------- publishing
\* uploadRecoveredDatums: serialize the list and put it under the tag.  A failed
\* serialization returns nil.  Result: the object store and the error returned.
uploadRecoveredDatums(objects, recovered, tag, outcome) ==
  IF outcome = "writeFailed" THEN [store |-> objects, err |-> NoErr, nf |-> 1]
  ELSE IF outcome = "putFailed" THEN [store |-> objects, err |-> Err, nf |-> 1]
  ELSE [store |-> StorePut(objects, tag, RecoveredDatums(recovered)), err |-> NoErr, nf |-> 0]

RecoveredOutcomes == {"ok", "writeFailed", "putFailed"}

\* uploadChunk: merge the subtask cache into one buffer, Put it into the chunk cache
\* under the tag, then upload it to the object store under the tag.
\* Result: the chunk cache, the object store and the error returned.
\* The first variant returns success without uploading to the object store.
uploadChunkCacheOnly(objects, subtaskCache, chunks, tag, outcome) ==
  LET buf == Chunk({e.body : e \in subtaskCache}) IN
  IF outcome \in {"mergeFailed", "putFailed"}
    THEN [cache |-> chunks, store |-> objects, err |-> Err, nf |-> 1]
  ELSE [cache |-> CachePut(chunks, TagKey(tag), buf), store |-> objects,
        err |-> IF outcome = "ok" THEN NoErr ELSE Err, nf |-> F(outcome = "ok")]

\* A variant that takes the chunk out of the cache again when the upload failed.
uploadChunkRollsBack(objects, subtaskCache, chunks, tag, outcome) ==
  LET buf == Chunk({e.body : e \in subtaskCache}) IN
  IF outcome \in {"mergeFailed", "putFailed", "uploadFailed"}
    THEN [cache |-> chunks, store |-> objects, err |-> Err, nf |-> 1]
  ELSE [cache |-> CachePut(chunks, TagKey(tag), buf), store |-> StorePut(objects, tag, buf),
        err |-> NoErr, nf |-> 0]

uploadChunk(objects, subtaskCache, chunks, tag, outcome) ==
  LET buf == Chunk({e.body : e \in subtaskCache}) IN
  IF outcome = "mergeFailed"
    THEN [cache |-> chunks, store |-> objects, err |-> Err, nf |-> 1]
  ELSE IF outcome = "putFailed"
    THEN [cache |-> chunks, store |-> objects, err |-> Err, nf |-> 1]
  ELSE IF outcome = "uploadFailed"
    THEN [cache |-> CachePut(chunks, TagKey(tag), buf), store |-> objects, err |-> Err,
          nf |-> 1]
  ELSE [cache |-> CachePut(chunks, TagKey(tag), buf), store |-> StorePut(objects, tag, buf),
        err |-> NoErr, nf |-> 0]

ChunkOutcomes == {"ok", "mergeFailed", "putFailed", "uploadFailed"}

\* The handler's publishing state: what the steps after the fan-out read and write.
\* Once err is set the handler has returned and the later steps do nothing.

\* Faulty variants of the publishing guards: the failed-datum test dropped, the S3Out
\* test dropped, the stats chunk held back when a datum failed.
ShouldPublishOutputDespiteFailed(stats, s3Out) == ~s3Out
ShouldPublishOutputDespiteS3Out(stats, s3Out) == stats.DatumsFailed = 0
ShouldPublishStatsUnlessFailed(stats, enableStats) == enableStats /\ stats.DatumsFailed = 0

\* The output chunk is published only without failed datums and not for S3Out.
ShouldPublishOutput(stats, s3Out) == stats.DatumsFailed = 0 /\ ~s3Out

\* The stats chunk is published whenever stats are enabled.
ShouldPublishStats(stats, enableStats) == enableStats

\* if data.Stats.DatumsFailed == 0 && !S3Out { recovered list; output chunk }
PublishOutput(hs, recovered, datums, s3Out, recOutcome, cacheOK, chunkOutcome) ==
  IF hs.err # NoErr \/ ~ShouldPublishOutput(hs.data.Stats, s3Out) THEN hs
  ELSE
    LET recTag == jobRecoveredDatumsTag(JobID, SubtaskID)
        r == IF Len(recovered) > 0
               THEN uploadRecoveredDatums(hs.store, recovered, recTag, recOutcome)
               ELSE [store |-> hs.store, err |-> NoErr, nf |-> 0]
        hs1 == [hs EXCEPT !.store = r.store, !.err = r.err, !.nf = @ + r.nf,
                          !.pub.rec = IF Len(recovered) > 0 THEN recOutcome ELSE @,
                          !.data.RecoveredDatumsTag =
                              IF Len(recovered) > 0 /\ r.err = NoErr THEN recTag ELSE @]
        chunkTag == jobChunkTag(JobID, SubtaskID)
        c == uploadChunk(hs1.store, datums, hs1.chunkCache, chunkTag, chunkOutcome) IN
    IF hs1.err # NoErr THEN hs1
    ELSE IF ~cacheOK THEN [hs1 EXCEPT !.err = Err, !.nf = @ + 1, !.pub.chunk = "noCache"]
    ELSE [hs1 EXCEPT !.store = c.store, !.chunkCache = c.cache, !.err = c.err,
                     !.nf = @ + c.nf, !.pub.chunk = chunkOutcome,
                     !.data.ChunkHashtree =
                         IF c.err = NoErr THEN HashtreeInfo(WorkerIP, chunkTag) ELSE @]

\* if EnableStats { stats chunk }
PublishStats(hs, stats, enableStats, cacheOK, chunkOutcome) ==
  IF hs.err # NoErr \/ ~ShouldPublishStats(hs.data.Stats, enableStats) THEN hs
  ELSE
    LET chunkStatsTag == jobChunkStatsTag(JobID, SubtaskID)
        c == uploadChunk(hs.store, stats, hs.chunkStatsCache, chunkStatsTag, chunkOutcome) IN
    IF ~cacheOK THEN [hs EXCEPT !.err = Err, !.nf = @ + 1, !.pub.stats = "noCache"]
    ELSE [hs EXCEPT !.store = c.store, !.chunkStatsCache = c.cache, !.err = c.err,
                    !.nf = @ + c.nf, !.pub.stats = chunkOutcome,
                    !.data.StatsHashtree =
                        IF c.err = NoErr THEN HashtreeInfo(WorkerIP, chunkStatsTag) ELSE @]

PublishesOutput == ShouldPublishOutput(data.Stats, S3Out)
PublishesStats == ShouldPublishStats(data.Stats, EnableStats)

\* eg.Wait() lets the handler go on once every task submitted to the group has
\* returned.  The first variant goes on as soon as the iteration is over.
egWaitForIterationOnly == \A d \in Datums : pc[d] # "idle"

egWait == \A d \in Datums : pc[d] = "done"

\* eg.Wait() returned an error: the first one a task returned.  The first variant
\* drops it.
FanOutFailedIgnored == FALSE

FanOutFailed == egErr # 0

\* eg.Wait() returned: every datum task is done.  The first task error is returned;
\* otherwise the chunks are published and the handler returns.
Finish ==
  /\ hpc = "iterate"
  /\ egWait
  /\ hpc' = "returned"
  /\ cancelled' = TRUE
  /\ IF FanOutFailed
       THEN /\ retErr' = subErr[egErr]
            /\ WorkerReturn(subErr[egErr], serializeDatumData(data), 0)
            /\ UNCHANGED <<store, chunkVars, data>>
       ELSE \E recOutcome \in (IF PublishesOutput /\ Len(recoveredDatums) > 0
                                 THEN Outcomes(RecoveredOutcomes, "ok") ELSE {"ok"}),
               cacheOK \in (IF PublishesOutput THEN OKs ELSE {TRUE}),
               chunkOutcome \in (IF PublishesOutput THEN Outcomes(ChunkOutcomes, "ok")
                                 ELSE {"ok"}),
               statsCacheOK \in (IF PublishesStats THEN OKs ELSE {TRUE}),
               statsOutcome \in (IF PublishesStats THEN Outcomes(ChunkOutcomes, "ok")
                                 ELSE {"ok"}) :
              LET hs0 == [store |-> store, chunkCache |-> chunkCache,
                          chunkStatsCache |-> chunkStatsCache, data |-> data, err |-> NoErr,
                          nf |-> 0, pub |-> pubHist]
                  hs1 == PublishOutput(hs0, recoveredDatums, datumCache, S3Out,
                                       recOutcome, cacheOK, chunkOutcome)
                  hs2 == PublishStats(hs1, statsCache, EnableStats, statsCacheOK,
                                      statsOutcome) IN
              /\ store' = hs2.store
              /\ chunkCache' = hs2.chunkCache
              /\ chunkStatsCache' = hs2.chunkStatsCache
              /\ data' = hs2.data
              /\ retErr' = hs2.err
              /\ pubHist' = hs2.pub
              /\ WorkerReturn(hs2.err, serializeDatumData(hs2.data), hs2.nf)
  /\ UNCHANGED <<cfgVars, mutexVars, mergeVars, gatewayVars, cacheVars, recoveredDatums, groupVars, activeData, taskVars>>

\* ------------------------------------------------------ handleMergeTask
\* The job's chunk cache the merge works on: the stats one for a stats merge.
MergeCache == IF mergeData.Stats THEN chunkStatsCache ELSE chunkCache
SetMergeCache(cache) ==
  IF mergeData.Stats
    THEN chunkStatsCache' = cache /\ UNCHANGED chunkCache
    ELSE chunkCache' = cache /\ UNCHANGED chunkStatsCache
\* usedIDs: the tags of data.Hashtrees.  The first variant records none.
UsedIDsEmpty == {}

UsedIDs == {TagKey(mergeData.Hashtrees[i].Tag) : i \in Chunks}

\* handleMergeTask up to the end of the loop over data.Hashtrees: the cache is
\* fetched, its keys are listed, and a download task is started for every chunk the
\* cache does not hold.
MergeBegin ==
  /\ wpc = "merge"
  /\ mpc = "start"
  /\ \E ok \in OKs :
       IF ok
         THEN /\ mpc' = "evict"
              /\ cachedIDs' = Keys(MergeCache)
              /\ dl' = [i \in Chunks |->
                          IF TagKey(mergeData.Hashtrees[i].Tag) \in Keys(MergeCache)
                            THEN [NoDownload EXCEPT !.pc = "cached"]
                            ELSE [NoDownload EXCEPT !.pc = "running"]]
              /\ UNCHANGED <<workerVars, retErr, faults>>
         ELSE /\ mpc' = "returned"
              /\ retErr' = Err
              /\ WorkerReturn(Err, serializeMergeData(mergeData), 1)
              /\ UNCHANGED <<cachedIDs, dl>>
  /\ UNCHANGED <<datumVars, mergeData, parent, megErr, mergeHist, store, chunkCache,
                 chunkStatsCache>>

\* What the peer named by info.Address can do for fetchChunkFromWorker: nothing if
\* there is no address, else serve the chunk, refuse, or break off while streaming.
PeerOutcomes(info) ==
  IF info.Address = "" THEN {"none"}
  ELSE {"ok", "connectFailed"} \cup (IF faults < FaultBudget THEN {"streamFailed"} ELSE {})
\* fetchChunk: the reader comes from the peer if it answered, else from the object
\* store under the tag.
fetchChunk(peer) == IF peer \in {"ok", "streamFailed"} THEN "peer" ELSE "store"
\* What can happen to a download task, by where its reader comes from.
DownloadOutcomes(peer) ==
  IF peer = "streamFailed" THEN {"copyFailed"}
  ELSE IF fetchChunk(peer) = "peer"
    THEN Outcomes({"ok", "putFailed", "closeFailed"}, "ok")
    ELSE Outcomes({"ok", "openFailed", "copyFailed", "putFailed", "closeFailed"}, "ok")

\* A variant in which the download tasks run under the group's context, which the
\* first task error cancels.
DownloadCtxDoneAfterError(firstErr) == firstErr # 0

\* Whether the context the download tasks run under is done: they use the driver's
\* context, the one errgroup.WithContext returns is discarded.
DownloadCtxDone(firstErr) == FALSE

\* The download task of chunk i: fetchChunk, io.Copy into a buffer, cache.Put under
\* the tag, and the deferred reader.Close.  sawErr records that another task had
\* failed before this one ended.
Download(i) ==
  /\ dl[i].pc = "running"
  /\ LET info == mergeData.Hashtrees[i] IN
     \E peer \in PeerOutcomes(info) :
     \E out \in (IF DownloadCtxDone(megErr) THEN {"cancelled"} ELSE DownloadOutcomes(peer)) :
       LET err == IF out = "ok" THEN NoErr ELSE Err IN
         /\ dl' = [dl EXCEPT ![i] = [pc |-> "done", err |-> err, peer |-> peer,
                                     src |-> IF out \in {"openFailed", "cancelled"}
                                               THEN "none" ELSE fetchChunk(peer),
                                     sawErr |-> megErr # 0]]
         /\ SetMergeCache(IF out \in {"ok", "closeFailed"}
                            THEN CachePut(MergeCache, TagKey(info.Tag), ChunkBytes(info.Tag))
                            ELSE MergeCache)
         /\ megErr' = IF megErr = 0 /\ err # NoErr THEN i ELSE megErr
         /\ Fault(F(out \in {"ok", "cancelled"}))
  /\ UNCHANGED <<datumVars, workerVars, mergeData, mpc, cachedIDs, parent, mergeHist,
                 store, retErr>>

\* The keys listed before the downloads that no chunk of this merge uses are
\* deleted, and the parent task is started if there is a parent.
Evict ==
  /\ mpc = "evict"
  /\ mpc' = "wait"
  /\ SetMergeCache({e \in MergeCache : e.key \notin (cachedIDs \ UsedIDs)})
  /\ parent' = IF mergeData.Parent THEN [parent EXCEPT !.pc = "running"] ELSE parent
  /\ UNCHANGED <<datumVars, workerVars, mergeData, cachedIDs, dl, megErr, mergeHist,
                 store, retErr, faults>>

\* The parent task: GetObjectReader(data.Parent.Hash) into parentReader.
ParentOpen ==
  /\ parent.pc = "running"
  /\ \E ok \in OKs :
       /\ parent' = [pc |-> "done", err |-> IF ok THEN NoErr ELSE Err,
                     reader |-> IF ok THEN "open" ELSE "nil", closes |-> 0]
       /\ megErr' = IF megErr = 0 /\ ~ok THEN NumChunks + 1 ELSE megErr
       /\ Fault(F(ok))
  /\ UNCHANGED <<datumVars, workerVars, mergeData, mpc, cachedIDs, dl, mergeHist, store,
                 chunkCache, chunkStatsCache, retErr>>

\* What merge can do: write the tree and its index, fail before the object is
\* written, or fail at the index after it.
MergeOutcomes == {"ok", "mergeFailed", "indexFailed"}
\* merge(driver, parentReader, cache, shard): the object and its size, nil and 0 on
\* an error.
merge(out, cache, withParent) ==
  IF out = "ok"
    THEN [tree |-> Object(MergedTree(cache, withParent)),
          size |-> Size(MergedTree(cache, withParent)), err |-> NoErr]
    ELSE [tree |-> NoObject, size |-> 0, err |-> Err]

\* eg.Wait() returned an error: a download task or the parent task failed.  The
\* first variant never sees the error.
\* A faulty variant of the deferred close: skipped when the download phase failed.
ClosesParentUnlessFailed(reader, failed) == reader = "open" /\ ~failed

\* The deferred function of handleMergeTask: parentReader.Close() if parentReader is
\* not nil, whatever the handler returns.
ClosesParent(reader, failed) == reader = "open"

DownloadPhaseFailedNever == FALSE

DownloadPhaseFailed == megErr # 0

\* eg.Wait() returned: its error ends the handler; else merge runs and on success
\* data.Tree and data.TreeSize are set.  The deferred parentReader.Close() runs last
\* and its error is the handler's if there was none.
MergeFinish ==
  /\ mpc = "wait"
  /\ \A i \in Chunks : dl[i].pc # "running"
  /\ parent.pc # "running"
  /\ mpc' = "returned"
  /\ parent' = IF ClosesParent(parent.reader, DownloadPhaseFailed)
                 THEN [parent EXCEPT !.reader = "closed", !.closes = @ + 1]
                 ELSE parent
  /\ IF DownloadPhaseFailed
       THEN /\ retErr' = Err
            /\ WorkerReturn(Err, serializeMergeData(mergeData), 0)
            /\ mergeHist' = [mergeHist EXCEPT !.close = IF parent' # parent
                                                          THEN "ok" ELSE "none"]
            /\ UNCHANGED <<mergeData, store>>
       ELSE \E out \in Outcomes(MergeOutcomes, "ok") :
            \E closeOK \in (IF parent.reader = "open" /\ out = "ok" THEN OKs ELSE {TRUE}) :
              LET m == merge(out, MergeCache, parent.reader = "open")
                  err == IF m.err # NoErr \/ ~closeOK THEN Err ELSE NoErr IN
                /\ mergeData' = IF m.err = NoErr
                                  THEN [mergeData EXCEPT !.Tree = m.tree,
                                                         !.TreeSize = m.size]
                                  ELSE mergeData
                /\ store' = IF out \in {"ok", "indexFailed"}
                              THEN StorePut(store, NoTag,
                                            MergedTree(MergeCache, parent.reader = "open"))
                              ELSE store
                /\ retErr' = err
                /\ mergeHist' = [merge |-> out,
                                 close |-> IF parent.reader # "open" THEN "none"
                                           ELSE IF closeOK THEN "ok" ELSE "failed"]
                /\ WorkerReturn(err, serializeMergeData(mergeData'),
                                F(out = "ok") + F(closeOK))
  /\ UNCHANGED <<datumVars, cachedIDs, dl, megErr, chunkCache, chunkStatsCache>>

Next ==
  \/ Dispatch
  \/ checkS3Gateway
  \/ Begin
  \/ \E d \in Datums : Submit(d)
  \/ \E d \in Datums : LoggerFail(d)
  \/ \E d \in Datums : Probe(d)
  \/ \E d \in Datums : StageFail(d)
  \/ \E d \in Datums : Lock(d)
  \/ \E d \in Datums : TaskEnd(d)
  \/ \E d \in Datums : EnterActive(d)
  \/ \E d \in Datums : UserCodeDone(d)
  \/ \E d \in Datums : ErrCmdDone(d)
  \/ Cancel
  \/ Finish
  \/ MergeBegin
  \/ \E i \in Chunks : Download(i)
  \/ Evict
  \/ ParentOpen
  \/ MergeFinish

Spec == Init /\ [][Next]_vars

\* The retry loop of checkS3Gateway keeps running while the handler is in it.
FairSpec == Spec /\ WF_vars(checkS3Gateway)

\* Every call the datum handler makes returns and every goroutine it started is
\* scheduled: the handler's own steps and each datum task's steps are weakly fair.
\* Failures and the cancellation from outside stay unforced.
HandlerFairSpec ==
  /\ Spec
  /\ WF_vars(checkS3Gateway)
  /\ WF_vars(Begin)
  /\ WF_vars(Finish)
  /\ \A d \in Datums :
       /\ WF_vars(Submit(d))
       /\ WF_vars(Probe(d))
       /\ WF_vars(EnterActive(d))
       /\ WF_vars(UserCodeDone(d))
       /\ WF_vars(ErrCmdDone(d))
       /\ WF_vars(Lock(d))
       /\ WF_vars(TaskEnd(d))

TypeOK ==
  /\ wpc \in {"start", "datum", "merge", "returned"}
  /\ mpc \in {"idle", "start", "evict", "wait", "returned"}
  /\ \A i \in Chunks : dl[i].pc \in {"idle", "cached", "running", "done"}
  /\ parent.pc \in {"idle", "running", "done"}
  /\ parent.reader \in {"nil", "open", "closed"}
  /\ parent.closes \in 0..1
  /\ megErr \in 0..(NumChunks + 1)
  /\ mergeHist.merge \in {"none"} \cup MergeOutcomes
  /\ mergeHist.close \in {"none", "ok", "failed"}
  /\ cachedIDs \subseteq {TagKey(t) : t \in LeftTags(mergeData.Stats)}
  /\ wErr \in {NoErr, Err, ErrUnrecognized}
  /\ probes \in 0..MaxProbes
  /\ gatewayOK \in BOOLEAN
  /\ hpc \in {"idle", "gateway", "start", "iterate", "returned"}
  /\ \A d \in Datums : pc[d] \in {"idle", "probe", "stage", "active", "errcmd", "merge", "locked",
                                 "done"}
  /\ statsMutex \in 0..NumDatums
  /\ retErr \in {NoErr, Err}
  /\ cancelled \in BOOLEAN
  /\ egErr \in 0..NumDatums
  /\ limiter \in 0..NumDatums
  /\ queueSize \in 0..NumDatums
  /\ activeData \in 0..NumDatums
  /\ faults \in 0..FaultBudget
  /\ \A d \in Datums : failures[d] \in 0..(MaxTries + 1)
  /\ \A d \in Datums : subErr[d] \in {NoErr, Err}
  /\ firstFailed \in 0..NumDatums
  /\ pubHist.rec \in {"none"} \cup RecoveredOutcomes
  /\ pubHist.chunk \in {"none", "noCache"} \cup ChunkOutcomes
  /\ pubHist.stats \in {"none", "noCache"} \cup ChunkOutcomes

\* ================================================================ properties
Returned == hpc = "returned"
Succeeded == Returned /\ retErr = NoErr
Done(d) == pc[d] = "done"
\* processDatum has returned to the task of datum d.
ProcessDatumReturned(d) == pc[d] \in {"merge", "locked", "done"}
Total(stats) ==
  stats.DatumsProcessed + stats.DatumsSkipped + stats.DatumsFailed + stats.DatumsRecovered
ChunkTag == jobChunkTag(JobID, SubtaskID)
ChunkStatsTag == jobChunkStatsTag(JobID, SubtaskID)
RecoveredTag == jobRecoveredDatumsTag(JobID, SubtaskID)
HitDatums == {d \in Datums : hist[d].hit}

\* C1: whenever handleDatumTask returns success, the four outcome counters of the
\* resulting Stats sum to the number of input datums.
C1_CountersSumToDatums == Succeeded => Total(data.Stats) = NumDatums

\* C2: if a datum ended as failed (DatumsFailed > 0) the output chunk is never
\* published: ChunkHashtree and RecoveredDatumsTag stay unset, chunkCache holds nothing
\* under the job's chunk tag and no object carries that tag.
C2_NoOutputChunkAfterFailure ==
  data.Stats.DatumsFailed > 0 =>
    /\ ~data.ChunkHashtree.set
    /\ data.RecoveredDatumsTag = NoTag
    /\ TagKey(ChunkTag) \notin Keys(chunkCache)
    /\ ChunkTag \notin Tags(store)

\* C2's case: the handler returned success for a pipeline that is not S3Out, with one
\* datum failed and another recovered.
C2_Witness ==
  /\ Succeeded /\ ~S3Out
  /\ data.Stats.DatumsFailed > 0
  /\ Len(recoveredDatums) > 0

\* C3: with S3Out a datum whose user code succeeded adds nothing to datumCache (only
\* cache hits do), ChunkHashtree and RecoveredDatumsTag are never set, and with stats
\* enabled a successful handler has published the stats chunk.
C3_S3OutSkipsOutputChunk ==
  S3Out =>
    /\ Keys(datumCache) \subseteq {UuidKey(d, 0) : d \in HitDatums}
    /\ ~data.ChunkHashtree.set
    /\ data.RecoveredDatumsTag = NoTag
    /\ (Succeeded /\ EnableStats =>
          /\ data.StatsHashtree = HashtreeInfo(WorkerIP, ChunkStatsTag)
          /\ TagKey(ChunkStatsTag) \in Keys(chunkStatsCache)
          /\ ChunkStatsTag \in Tags(store))

\* C3's case: an S3Out pipeline with stats, the handler returned success, a datum's
\* user code succeeded and another datum was recovered.
C3_Witness ==
  /\ Succeeded /\ S3Out /\ EnableStats
  /\ data.Stats.DatumsProcessed > 0
  /\ data.Stats.DatumsRecovered > 0

\* C4: a failed datum does not make the handler return an error.  Its own task returns
\* an error only if an external call failed, and a handler that returns with a failed
\* datum and no failed external call returns success with DatumsFailed > 0 and
\* FailedDatumID set, having published the stats chunk and set StatsHashtree to
\* {WORKER_IP, jobChunkStatsTag(JobID, subtaskID)} when stats are enabled.
C4_FailedDatumIsNotAnError ==
  /\ \A d \in Datums :
        Done(d) /\ subStats[d].DatumsFailed = 1 /\ subErr[d] # NoErr => faults > 0
  /\ (Returned /\ faults = 0 /\ (\E d \in Datums : subStats[d].DatumsFailed = 1)) =>
        /\ retErr = NoErr
        /\ data.Stats.DatumsFailed > 0
        /\ data.Stats.FailedDatumID # NoDatumID
        /\ (EnableStats =>
              /\ data.StatsHashtree = HashtreeInfo(WorkerIP, ChunkStatsTag)
              /\ TagKey(ChunkStatsTag) \in Keys(chunkStatsCache)
              /\ ChunkStatsTag \in Tags(store))

\* C4's case: stats enabled, a datum's user code failed DatumTries times without
\* recovery, no external call failed, the handler has returned.
C4_Witness ==
  /\ Returned /\ faults = 0 /\ EnableStats /\ DatumTries >= 1
  /\ \E d \in Datums :
        /\ subStats[d].DatumsFailed = 1
        /\ hist[d].userRuns = DatumTries
        /\ failures[d] = DatumTries

\* C5: DatumsSkipped equals the number of datums whose tag was present when probed,
\* also when stats are enabled and the fetch of the datum's stats tree failed.
C5_SkippedCountsCacheHits == Succeeded => data.Stats.DatumsSkipped = Cardinality(HitDatums)

\* The datumCache entries put for datum d.
CacheEntriesOf(d) == {e \in datumCache : e.key.uuid[1] = d}

\* C11: if writing the recovered-datum list into the buffer fails,
\* uploadRecoveredDatums returns the error and puts no object under the recovered tag,
\* and handleDatumTask returns the error without setting RecoveredDatumsTag.
C11_SerializationErrorPropagates ==
  (Returned /\ pubHist.rec = "writeFailed") =>
    /\ retErr # NoErr
    /\ RecoveredTag \notin Tags(store)
    /\ data.RecoveredDatumsTag = NoTag

\* C12: FailedDatumID is sticky: it is the id of the failed datum whose sub-stats were
\* merged first and no later merge changes it; it is empty iff no datum failed.
C12_FailedDatumIDIsFirstMerged ==
  /\ data.Stats.FailedDatumID =
       IF firstFailed = 0 THEN NoDatumID ELSE DatumID(Inputs(firstFailed))
  /\ (firstFailed = 0 <=> data.Stats.DatumsFailed = 0)
  /\ (firstFailed # 0 => Done(firstFailed) /\ subStats[firstFailed].DatumsFailed = 1)

\* C12's case: two datums failed and the later one of the list was merged first.
C12_Witness ==
  /\ data.Stats.DatumsFailed = 2
  /\ firstFailed = 2
  /\ data.Stats.FailedDatumID = DatumID(Inputs(2))

InTry(d) == pc[d] \in {"active", "errcmd"}
InLoop(d) == pc[d] \in {"stage", "active", "errcmd"}

\* C7: for DatumTries >= 1 and no cancellation, user code runs at most DatumTries
\* times for a datum; failures counts the failed attempts; another attempt is made only
\* while failures < DatumTries; a datum is failed only with failures = DatumTries.
C7_AtMostDatumTriesRuns ==
  (DatumTries >= 1 /\ ~cancelled) =>
    \A d \in Datums :
      /\ hist[d].userRuns <= DatumTries
      /\ hist[d].attempts <= DatumTries
      /\ (InLoop(d) => failures[d] < DatumTries)
      /\ failures[d] = hist[d].attempts -
            (IF InTry(d) \/ (ProcessDatumReturned(d) /\ subStats[d].DatumsProcessed = 1)
               THEN 1 ELSE 0)
      /\ (ProcessDatumReturned(d) /\ subStats[d].DatumsFailed = 1 =>
            failures[d] = DatumTries)

\* C7's case: DatumTries >= 2, nothing was cancelled, and a datum ended as failed
\* after user code ran DatumTries times.
C7_Witness ==
  /\ DatumTries >= 2 /\ ~cancelled
  /\ \E d \in Datums :
        /\ Done(d) /\ subStats[d].DatumsFailed = 1
        /\ hist[d].userRuns = DatumTries

\* C8: the error command runs at most once per datum, and only with an error command
\* configured, after user code failed in this attempt and with exactly DatumTries-1
\* failed attempts before; if it succeeds the datum ends as recovered, if it fails the
\* attempt counts as a failure and the datum ends as failed.
C8_ErrorHandlerDecidesOutcome ==
  \A d \in Datums :
    /\ hist[d].errRuns <= 1
    /\ (pc[d] = "errcmd" =>
          /\ ErrCmd
          /\ hist[d].userRuns >= 1 /\ activeData = d
          /\ failures[d] = DatumTries - 1)
    /\ (Done(d) /\ hist[d].errRuns = 1 =>
          IF hist[d].handlerOK
            THEN subStats[d].DatumsRecovered = 1 /\ subStats[d].DatumsFailed = 0
            ELSE subStats[d].DatumsFailed = 1 /\ failures[d] = DatumTries)

\* C9: every datum that processDatum completed increments exactly one of the four
\* counters by one; a recovered datum increments only DatumsRecovered, returns its tag
\* as the single recovered tag and has no entry in datumCache.
C9_ExactlyOneCounter ==
  \A d \in Datums :
    (Done(d) /\ subErr[d] = NoErr) =>
      /\ Total(subStats[d]) = 1
      /\ (subStats[d].DatumsRecovered = 1 =>
            /\ subRecovered[d] = <<Tag(d)>>
            /\ CacheEntriesOf(d) = {})
      /\ (subStats[d].DatumsRecovered = 0 => subRecovered[d] = <<>>)

RecoveredSet == {d \in Datums : subStats[d].DatumsRecovered = 1}

\* C10: when the handler succeeds with DatumsFailed = 0 and not S3Out,
\* RecoveredDatumsTag is set iff a datum was recovered; when set it is
\* jobRecoveredDatumsTag(JobID, subtaskID) and the list published under it holds
\* exactly the tags of the recovered datums, one each.
C10_RecoveredListPublished ==
  (Succeeded /\ data.Stats.DatumsFailed = 0 /\ ~S3Out) =>
    /\ (data.RecoveredDatumsTag # NoTag <=> data.Stats.DatumsRecovered > 0)
    /\ (data.RecoveredDatumsTag # NoTag =>
          /\ data.RecoveredDatumsTag = RecoveredTag
          /\ \E o \in store :
                /\ o.tag = RecoveredTag
                /\ o.body.of = "recovered"
                /\ Len(o.body.hashes) = data.Stats.DatumsRecovered
                /\ {o.body.hashes[i] : i \in 1..Len(o.body.hashes)} =
                     {Tag(d) : d \in RecoveredSet})

\* ------------------------------------------------------------------ Worker
\* The datum handler and the merge handler have been entered.
DatumHandlerInvoked == hpc # "idle"
MergeHandlerInvoked == mpc # "idle"

\* C13: Worker routes a subtask to exactly one handler: the datum handler if the
\* payload decodes as DatumData, otherwise the merge handler if it decodes as
\* MergeData, otherwise no handler is invoked and Worker returns the "task format
\* unrecognized" error with the payload unchanged.
C13_RoutesToExactlyOneHandler ==
  LET isDatum == deserializeDatumData(received).ok
      isMerge == deserializeMergeData(received).ok IN
    /\ ~(DatumHandlerInvoked /\ MergeHandlerInvoked)
    /\ DatumHandlerInvoked => isDatum
    /\ MergeHandlerInvoked => ~isDatum /\ isMerge
    /\ \A d \in Datums : pc[d] # "idle" => DatumHandlerInvoked
    /\ \A i \in Chunks : dl[i].pc # "idle" => MergeHandlerInvoked
    /\ wpc # "start" =>
         /\ isDatum => DatumHandlerInvoked /\ wErr # ErrUnrecognized
         /\ (~isDatum /\ isMerge) => MergeHandlerInvoked /\ wErr # ErrUnrecognized
         /\ (~isDatum /\ ~isMerge) =>
              wpc = "returned" /\ wErr = ErrUnrecognized /\ subtask.Data = received

C13_Witness ==
  /\ wpc = "returned"
  /\ ~deserializeDatumData(received).ok
  /\ ~deserializeMergeData(received).ok
  /\ wErr = ErrUnrecognized

\* C14: the re-encoded payload is written into the subtask only when the handler
\* succeeded: if handleDatumTask or handleMergeTask returned an error, Worker returns
\* that error and subtask.Data is exactly as received.
C14_PayloadWrittenOnlyOnSuccess ==
  /\ (wpc = "returned" /\ retErr # NoErr) => wErr = retErr /\ subtask.Data = received
  /\ subtask.Data # received =>
       /\ wpc = "returned"
       /\ retErr = NoErr
       /\ DatumHandlerInvoked \/ MergeHandlerInvoked

\* A handler changed its payload and then failed.
C14_Witness ==
  /\ wpc = "returned"
  /\ retErr # NoErr
  /\ data.Stats # ZeroStats
  /\ subtask.Data = received

\* -------------------------------------------------------------- uploadChunk
\* The chunk under tag can be fetched from the cache and from the object store, and
\* both hold bytes.
Fetchable(cache, tag, bytes) ==
  /\ [key |-> TagKey(tag), body |-> bytes] \in cache
  /\ [tag |-> tag, body |-> bytes] \in store

\* C15: after uploadChunk returned success for a tag, the merged chunk is in the
\* given chunk cache under the tag and an object with the same bytes is tagged with
\* it in the object store; so whenever ChunkHashtree or StatsHashtree is set, it
\* names this worker and the tag, and the chunk is fetchable both ways.
C15_ChunkInCacheAndStore ==
  LET out == Chunk({e.body : e \in datumCache})
      stats == Chunk({e.body : e \in statsCache}) IN
    /\ pubHist.chunk = "ok" => Fetchable(chunkCache, ChunkTag, out)
    /\ pubHist.stats = "ok" => Fetchable(chunkStatsCache, ChunkStatsTag, stats)
    /\ data.ChunkHashtree.set =>
         /\ data.ChunkHashtree = HashtreeInfo(WorkerIP, ChunkTag)
         /\ Fetchable(chunkCache, ChunkTag, out)
    /\ data.StatsHashtree.set =>
         /\ data.StatsHashtree = HashtreeInfo(WorkerIP, ChunkStatsTag)
         /\ Fetchable(chunkStatsCache, ChunkStatsTag, stats)

C15_Witness ==
  /\ Returned
  /\ pubHist.chunk = "ok"
  /\ pubHist.stats = "ok"
  /\ data.ChunkHashtree.set
  /\ data.StatsHashtree.set
  /\ datumCache # {}

\* --------------------------------------------------------------- fetchChunk
\* The peer of chunk i was asked and failed, at the connection or while streaming.
PeerFailed(i) == dl[i].peer \in {"connectFailed", "streamFailed"}
\* A call other than the peer's failed in this run.
OtherFault == faults > Cardinality({i \in Chunks : dl[i].peer = "streamFailed"})

\* C16: when a chunk's info has an Address and the fetch from that peer fails with
\* any error (connecting, opening the stream, or while streaming), the chunk is
\* read from the object store by its tag and the merge does not fail because of
\* the peer; with an empty Address only the object store is read.
C16_PeerFailureFallsBack ==
  \A i \in Chunks : dl[i].pc = "done" =>
    /\ mergeData.Hashtrees[i].Address = "" =>
         dl[i].peer = "none" /\ dl[i].src \in {"store", "none"}
    /\ PeerFailed(i) =>
         /\ dl[i].src \in {"store", "none"}
         /\ dl[i].err # NoErr => OtherFault
         /\ (mpc = "returned" /\ ~OtherFault) => retErr = NoErr

\* ---------------------------------------------------------- handleMergeTask
MergeReturned == mpc = "returned"
\* data.Tree and data.TreeSize are as the subtask brought them: not populated.
TreeUnpopulated == ~mergeData.Tree.set /\ mergeData.TreeSize = 0
\* An error in a chunk download, in opening the parent, or in the merge step.
DownloadOrMergeError ==
  \/ \E i \in Chunks : dl[i].err # NoErr
  \/ parent.err # NoErr
  \/ mergeHist.merge \in {"mergeFailed", "indexFailed"}

\* C17 as stated: an error in a chunk download, in opening the parent or in the
\* merge step makes handleMergeTask return an error, the merge is not started after
\* a failed download phase, and whenever handleMergeTask returns an error data.Tree
\* and data.TreeSize are unpopulated.
C17_AnyErrorLeavesTreeUnpopulated ==
  /\ (MergeReturned /\ DownloadOrMergeError) => retErr # NoErr
  /\ ((\E i \in Chunks : dl[i].err # NoErr) \/ parent.err # NoErr) =>
       mergeHist.merge = "none"
  /\ (MergeReturned /\ retErr # NoErr) => TreeUnpopulated

\* C17, amended: the same, but data.Tree and data.TreeSize are unpopulated when the
\* error comes from the download phase or the merge step; the error of the deferred
\* parentReader.Close() after a successful merge is returned with both populated.
C17_DownloadOrMergeErrorLeavesTreeUnpopulated ==
  /\ (MergeReturned /\ DownloadOrMergeError) => retErr # NoErr
  /\ ((\E i \in Chunks : dl[i].err # NoErr) \/ parent.err # NoErr) =>
       /\ mergeHist.merge = "none"
       /\ MergeReturned => store = {}
  /\ (MergeReturned /\ DownloadOrMergeError) => TreeUnpopulated
  /\ (MergeReturned /\ retErr # NoErr /\ ~DownloadOrMergeError) =>
       \/ mergeHist = [merge |-> "ok", close |-> "failed"] /\ mergeData.Tree.set
       \/ mergeHist.merge = "none" /\ TreeUnpopulated
  /\ (MergeReturned /\ retErr = NoErr) =>
       /\ mergeData.Tree = Object(MergedTree(MergeCache, parent.reader = "closed"))
       /\ mergeData.TreeSize = Size(mergeData.Tree.hash)

\* The merge step failed at the index after the downloads and the parent succeeded.
C17_Witness ==
  /\ MergeReturned
  /\ mergeHist.merge = "indexFailed"
  /\ parent.reader = "closed"
  /\ \E i \in Chunks : dl[i].pc = "done"
  /\ retErr # NoErr
  /\ TreeUnpopulated

\* ------------------------------------------------------------- datum stats
\* The entries of statsCache that datum d put, and the objects under its stats tag.
StatsEntriesOf(d) == {e \in statsCache : e.key \in {UuidKey(d, 0), TagKey(Tag(d))}}
StatsObjectsOf(d) == {o \in store : o.tag = StatsTagOf(Tag(d))}
\* processDatum completed for d: it returned without an error of its own.
Completed(d) == Done(d) /\ subErr[d] = NoErr

\* C18 as stated: with stats enabled, every datum processDatum completes has exactly
\* one "<tag>_stats" object and exactly one entry in statsCache, whatever its
\* outcome.
C18_OneStatsObjectAndEntryPerDatum ==
  EnableStats =>
    \A d \in Datums : Completed(d) =>
      /\ Cardinality(StatsObjectsOf(d)) = 1
      /\ Cardinality(StatsEntriesOf(d)) = 1

\* C18, amended: with stats enabled, every datum processDatum completes has exactly
\* one "<tag>_stats" object and exactly one entry in statsCache, except a datum found
\* in the object store whose "<tag>_stats" could not be fetched: it completes with
\* neither.
C18_OneStatsObjectAndEntryUnlessStatsMiss ==
  EnableStats =>
    \A d \in Datums : Completed(d) =>
      IF hist[d].statsMiss
        THEN StatsObjectsOf(d) = {} /\ StatsEntriesOf(d) = {}
        ELSE /\ StatsObjectsOf(d) = {[tag |-> StatsTagOf(Tag(d)), body |-> StatsTree(Tag(d))]}
             /\ \E k \in {UuidKey(d, 0), TagKey(Tag(d))} :
                  StatsEntriesOf(d) = {[key |-> k, body |-> StatsTree(Tag(d))]}

\* A cache hit with its stats and a failed datum, both completed.
C18_Witness ==
  /\ EnableStats
  /\ Succeeded
  /\ \E d \in Datums : Completed(d) /\ hist[d].hit /\ ~hist[d].statsMiss
  /\ \E d \in Datums : Completed(d) /\ subStats[d].DatumsFailed = 1
  /\ Cardinality(statsCache) = NumDatums

\* --------------------------------------------------------- S3 gateway probe
\* The handler has gone past the probe: the datum caches are acquired.
PastGateway == hpc \in {"start", "iterate"} \/ \E d \in Datums : pc[d] # "idle"
\* handleDatumTask returned because the probe failed to the end.
GatewayGaveUp == Returned /\ (S3Inputs \/ S3Out) /\ ~gatewayOK

C19_Safety ==
  /\ ((S3Inputs \/ S3Out) /\ PastGateway) => gatewayOK
  /\ (S3Inputs \/ S3Out) => (\A d \in Datums : hist[d] # ZeroHist => gatewayOK)
  /\ hpc = "gateway" => probes < MaxProbes
  /\ GatewayGaveUp =>
       /\ probes = MaxProbes
       /\ retErr = Err /\ wErr = Err
       /\ datumCache = {} /\ statsCache = {}
       /\ \A d \in Datums : pc[d] = "idle" /\ hist[d] = ZeroHist
       /\ data = InitialData
       /\ store = {} /\ chunkCache = {} /\ chunkStatsCache = {}
       /\ pubHist = NoPubHist
       /\ faults = 0

\* C19: with S3 inputs or S3Out, handleDatumTask processes no datum before the S3
\* gateway probe has succeeded; the probe retries on failure and terminates; on
\* persistent failure handleDatumTask returns the probe's last error without
\* acquiring the datum caches, processing a datum or publishing anything.
C19_GatewayProbeBeforeDatums ==
  /\ []C19_Safety
  /\ (hpc = "gateway") ~> (hpc \in {"start", "returned"})

\* The probe failed, was retried and failed to the end.
C19_Witness ==
  /\ GatewayGaveUp
  /\ probes = MaxProbes
  /\ probes > 1
  /\ retErr = Err

\* ------------------------------------------------------------ concurrency
\* The datum tasks submitted and not yet finished.
InFlight == {d \in Datums : pc[d] \notin {"idle", "done"}}

InActive == {d \in Datums : pc[d] \in {"active", "errcmd"}}
Staging == {d \in Datums : pc[d] = "stage"}

\* C21: at most one datum at a time is inside the active-data section (running user
\* code or the error command), across all running datum tasks; other datums may be
\* staging inputs meanwhile.
C21_OneActiveDatum ==
  /\ Cardinality(InActive) <= 1
  /\ \A d \in Datums : d \in InActive <=> activeData = d
  /\ InActive = {} <=> activeData = 0

\* One datum runs user code while another one has staged its inputs.
C21_Witness ==
  /\ MaxQueueSize > 1
  /\ \E d \in InActive : \E e \in Staging : d # e /\ hist[e].attempts = 0

\* -------------------------------------------------------------- publication
\* The handler has published something or tried to: a call of uploadRecoveredDatums
\* or uploadChunk was made, an object is under one of the subtask's tags, a chunk
\* cache has an entry, or one of the payload's locations is set.
Published ==
  \/ pubHist # NoPubHist
  \/ {ChunkTag, ChunkStatsTag, RecoveredTag} \cap Tags(store) # {}
  \/ chunkCache # {}
  \/ chunkStatsCache # {}
  \/ data.ChunkHashtree.set
  \/ data.StatsHashtree.set
  \/ data.RecoveredDatumsTag # NoTag

\* C22: the output chunk, the recovered-datum list and the stats chunk are published
\* only after every datum task of the subtask has finished and the fan-out returned
\* no error; nothing is published while a datum task is still running.
C22_PublishedAfterFanOut ==
  (DatumHandlerInvoked /\ Published) =>
    /\ \A d \in Datums : Done(d)
    /\ InFlight = {}
    /\ egErr = 0
    /\ \A d \in Datums : subErr[d] = NoErr

\* All three were published.
C22_Witness ==
  /\ Returned
  /\ pubHist = [rec |-> "ok", chunk |-> "ok", stats |-> "ok"]
  /\ {ChunkTag, ChunkStatsTag, RecoveredTag} \subseteq Tags(store)

\* ------------------------------------------------------------ merge cache
\* The keys the merge deletes: listed before the downloads and used by no chunk.
StaleIDs == cachedIDs \ UsedIDs
\* The deletion loop has run (the handler got its cache and is past the loop).
Evicted == mpc \in {"wait", "returned"} /\ \A i \in Chunks : dl[i].pc # "idle"
\* The download tasks started and not yet returned.
Downloading == {i \in Chunks : dl[i].pc = "running"}

\* C23: in handleMergeTask no cache key is evicted until every chunk download
\* started for the merge has completed.
C23_EvictionAfterDownloads ==
  (Evicted /\ StaleIDs # {}) => Downloading = {}

\* The tags of data.Hashtrees, as cache keys.
ReferencedKeys == {TagKey(mergeData.Hashtrees[i].Tag) : i \in Chunks}
\* The download phase is over and eg.Wait() returned no error.
DownloadPhaseSucceeded ==
  /\ Evicted
  /\ Downloading = {}
  /\ parent.pc # "running"
  /\ megErr = 0

\* C24: when the download phase of handleMergeTask succeeded, the keys of the target
\* cache are exactly the tags of Hashtrees: every referenced tag is present (with the
\* chunk's bytes), no referenced tag is deleted at any point, and every key cached
\* before and not referenced is gone before the merge step reads the cache.
C24_CacheKeysAreTheReferencedTags ==
  MergeHandlerInvoked =>
    /\ DownloadPhaseSucceeded =>
         MergeCache = {[key |-> k, body |-> ChunkBytes(k.tag)] : k \in ReferencedKeys}
    /\ \A i \in Chunks :
         (dl[i].pc = "cached" \/ (dl[i].pc = "done" /\ dl[i].err = NoErr)) =>
           TagKey(mergeData.Hashtrees[i].Tag) \in Keys(MergeCache)
    /\ Evicted => Keys(MergeCache) \subseteq ReferencedKeys
    /\ mergeHist.merge = "ok" =>
         mergeData.Tree.hash.trees \ {ParentTree} =
           {ChunkBytes(k.tag) : k \in ReferencedKeys}

\* A merge that found one chunk cached, downloaded the other and dropped a stale key.
C24_Witness ==
  /\ MergeReturned
  /\ retErr = NoErr
  /\ \E i \in Chunks : dl[i].pc = "cached"
  /\ \E i \in Chunks : dl[i].pc = "done"
  /\ cachedIDs \ ReferencedKeys # {}
  /\ Keys(MergeCache) = ReferencedKeys

\* ------------------------------------------------------------- task errors
\* The datum tasks that returned an error to the group.
FailedTasks == {d \in Datums : Done(d) /\ subErr[d] # NoErr}

\* C25: if any datum task returns an error, handleDatumTask returns an error, sets
\* none of ChunkHashtree, StatsHashtree and RecoveredDatumsTag, and publishes no chunk
\* to a chunk cache or to the object store.
C25_TaskErrorPublishesNothing ==
  FailedTasks # {} =>
    /\ egErr \in FailedTasks
    /\ ~data.ChunkHashtree.set
    /\ ~data.StatsHashtree.set
    /\ data.RecoveredDatumsTag = NoTag
    /\ pubHist = NoPubHist
    /\ chunkCache = {} /\ chunkStatsCache = {}
    /\ {ChunkTag, ChunkStatsTag, RecoveredTag} \cap Tags(store) = {}
    /\ Returned => (retErr = subErr[egErr] /\ wErr = retErr /\ subtask.Data = received)

\* One task returned an error after another datum was processed and cached.
C25_Witness ==
  /\ Returned
  /\ FailedTasks # {}
  /\ \E d \in Datums : subErr[d] = NoErr /\ subStats[d].DatumsProcessed = 1
  /\ datumCache # {}
  /\ retErr # NoErr

\* ---------------------------------------------------------- failed datums
\* The sum of a counter over the sub-stats the datum tasks of S returned.
RECURSIVE SumOf(_, _)
SumOf(S, counter) ==
  IF S = {} THEN 0
  ELSE LET d == CHOOSE x \in S : TRUE IN subStats[d][counter] + SumOf(S \ {d}, counter)

\* Task d returns in this step without an error of its own, as failed.
EndsAsFailed(d) ==
  /\ pc[d] # "done"
  /\ pc'[d] = "done"
  /\ subErr'[d] = NoErr
  /\ subStats'[d].DatumsFailed = 1

C26_Safety ==
  (Returned /\ \E d \in Datums : pc[d] # "idle") =>
    /\ \A d \in Datums : Done(d)
    /\ FailedTasks = {} =>
         /\ data.Stats.DatumsFailed =
              Cardinality({d \in Datums : subStats[d].DatumsFailed = 1})
         /\ data.Stats.DatumsProcessed = SumOf(Datums, "DatumsProcessed")
         /\ data.Stats.DatumsSkipped = SumOf(Datums, "DatumsSkipped")
         /\ data.Stats.DatumsRecovered = SumOf(Datums, "DatumsRecovered")

\* C26: a datum that ends as failed does not cancel its siblings: the group context
\* is not cancelled by it and no group error is set, every other datum of the subtask
\* is taken to its own outcome, and the final counts cover all datums.
C26_FailedDatumDoesNotCancel ==
  /\ []C26_Safety
  /\ [][\A d \in Datums : EndsAsFailed(d) => (cancelled' = cancelled /\ egErr' = egErr)]_vars

\* A datum has ended as failed while a sibling runs user code, not cancelled.
C26_Witness ==
  /\ hpc = "iterate"
  /\ ~cancelled
  /\ \E d \in Datums : Done(d) /\ subErr[d] = NoErr /\ subStats[d].DatumsFailed = 1
  /\ \E e \in Datums : pc[e] = "active"


\* At the return of handleDatumTask nothing of the fan-out is left.
C27_Safety ==
  Returned =>
    /\ InFlight = {}
    /\ (\E d \in Datums : pc[d] # "idle") => \A d \in Datums : Done(d)
    /\ limiter = 0
    /\ queueSize = 0
    /\ activeData = 0

\* C27: provided every external call returns, handleDatumTask eventually returns on
\* every path (success, task error, iteration error, cancellation of the subtask
\* context), and when it returns every submitted datum task has finished, every
\* limiter token is released, queueSize is 0 and the active-data mutex is free.
C27_HandlerReturnsClean == (DatumHandlerInvoked ~> Returned) /\ []C27_Safety

\* The handler returned after a task error cancelled the group while a sibling had
\* run user code.
C27_Witness ==
  /\ Returned
  /\ cancelled
  /\ egErr # 0
  /\ \A d \in Datums : Done(d)
  /\ \E d \in Datums : hist[d].userRuns > 0
  /\ limiter = 0 /\ queueSize = 0 /\ activeData = 0


\* The datum tasks inside the section statsMutex guards.
Locked == {d \in Datums : pc[d] = "locked"}
\* The datum tasks waiting in statsMutex.Lock().
AwaitingLock == {d \in Datums : pc[d] = "merge"}
Counters == {"DatumsProcessed", "DatumsSkipped", "DatumsFailed", "DatumsRecovered"}

ParentOpened == parent.pc = "done" /\ parent.err = NoErr

\* C29: in handleMergeTask, if the parent reader was opened it is closed exactly
\* once before the handler returns, on every exit path (download failure, merge
\* failure, success); it is not closed while the handler runs, and a reader that was
\* not opened is not closed.
C29_ParentReaderClosedOnce ==
  /\ MergeReturned =>
       IF ParentOpened THEN parent.reader = "closed" /\ parent.closes = 1
                       ELSE parent.reader = "nil" /\ parent.closes = 0
  /\ ~MergeReturned =>
       /\ parent.closes = 0
       /\ parent.reader = (IF ParentOpened THEN "open" ELSE "nil")

\* The handler returned the error of a failed chunk download after the parent reader
\* had been opened.
C29_Witness ==
  /\ MergeReturned
  /\ ParentOpened
  /\ megErr \in Chunks
  /\ retErr # NoErr
  /\ mergeHist.merge = "none"
  /\ parent.closes = 1


\* A datum task returned an error and the group context is cancelled while the
\* iteration has not reached every datum of the list.
CancelledInIteration ==
  hpc = "iterate" /\ cancelled /\ egErr # 0 /\ \E d \in Datums : pc[d] = "idle"
\* The callback has run for every datum of the list.
AllSubmitted == \A d \in Datums : pc[d] # "idle"

\* C30: the iteration callback never returns an error, so after a datum task has
\* returned an error and the group context is cancelled the iteration is not cut
\* short: every remaining datum still takes a limiter token and has its task
\* submitted, under the context that stays cancelled, and the handler does not
\* return with a datum of the list left out.
C30_IterationNotCutShort ==
  /\ CancelledInIteration ~> AllSubmitted
  /\ [][cancelled => cancelled']_vars
  /\ [](Returned /\ egErr # 0 => \A d \in Datums : Done(d))

\* With one token, a datum later in the list than the one whose task returned the
\* error is inside processDatum: it was submitted after the cancellation.
C30_Witness ==
  /\ hpc = "iterate"
  /\ cancelled
  /\ egErr # 0
  /\ MaxQueueSize = 1
  /\ \E d \in Datums : d > egErr /\ pc[d] \in {"stage", "active", "merge"}


\* The object-store upload of the output chunk, or of the stats chunk, failed after
\* the chunk had been put into its cache.
OutputUploadFailed == pubHist.chunk = "uploadFailed"
StatsUploadFailed == pubHist.stats = "uploadFailed"

\* C31: uploadChunk puts the merged chunk into the chunk cache before the upload and
\* does not roll back: when the object-store upload then fails, handleDatumTask
\* returns the error with ChunkHashtree unset and nothing written back to the
\* subtask, no object is under the chunk's tag, and the chunk cache still holds the
\* chunk under the tag.  The same holds for the stats chunk and StatsHashtree.
C31_FailedUploadLeavesChunkCached ==
  /\ OutputUploadFailed =>
       /\ Returned /\ retErr = Err /\ wErr = Err
       /\ ~data.ChunkHashtree.set
       /\ ~data.StatsHashtree.set
       /\ subtask.Data = received
       /\ ChunkTag \notin Tags(store)
       /\ [key |-> TagKey(ChunkTag), body |-> Chunk({e.body : e \in datumCache})]
            \in chunkCache
  /\ StatsUploadFailed =>
       /\ Returned /\ retErr = Err /\ wErr = Err
       /\ ~data.StatsHashtree.set
       /\ subtask.Data = received
       /\ ChunkStatsTag \notin Tags(store)
       /\ [key |-> TagKey(ChunkStatsTag), body |-> Chunk({e.body : e \in statsCache})]
            \in chunkStatsCache

\* The upload of an output chunk made of a processed datum's tree failed.
C31_Witness ==
  /\ OutputUploadFailed
  /\ datumCache # {}
  /\ \E d \in Datums : subStats[d].DatumsProcessed = 1
  /\ Keys(chunkCache) = {TagKey(ChunkTag)}


\* The retry loop of datum d ended in the callback's branch failures >= DatumTries.
GaveUp(d) ==
  ProcessDatumReturned(d) /\ failures[d] >= 1 /\ failures[d] >= DatumTries
HasFailureEntry(d) == "failure" \in statsTree[d]

\* C32 as stated: with stats enabled the stats tree has a 'failure' entry exactly
\* when the retry loop ended with failures >= DatumTries, a recovered datum included.
C32_FailureEntryExactlyWhenGaveUp ==
  EnableStats => \A d \in Datums : ProcessDatumReturned(d) => (HasFailureEntry(d) <=> GaveUp(d))

\* C32, amended: with stats enabled the stats tree has a 'failure' entry exactly
\* when the retry loop ended with failures >= DatumTries and the error text was put
\* and inspected; a recovered datum leaves through that branch and has the entry
\* under the same condition.  Without stats there is no entry.
C32_FailureEntryWhenErrorObjectStored ==
  \A d \in Datums :
    /\ HasFailureEntry(d) => EnableStats
    /\ (EnableStats /\ ProcessDatumReturned(d)) =>
         /\ HasFailureEntry(d) <=> (GaveUp(d) /\ hist[d].failureEntry = "ok")
         /\ GaveUp(d) <=> hist[d].failureEntry # "none"
         /\ subStats[d].DatumsRecovered = 1 =>
              GaveUp(d) /\ (HasFailureEntry(d) <=> hist[d].failureEntry = "ok")
    /\ ~ProcessDatumReturned(d) => ~HasFailureEntry(d)

\* A recovered datum whose stats tree has the failure entry.
C32_Witness ==
  \E d \in Datums :
    /\ Done(d)
    /\ subStats[d].DatumsRecovered = 1
    /\ hist[d].handlerOK
    /\ HasFailureEntry(d)
    /\ failures[d] = DatumTries


\* The tasks of the download group that returned an error.
FailedDownloads == {i \in Chunks : dl[i].pc = "done" /\ dl[i].err # NoErr}
ParentFailed == parent.pc = "done" /\ parent.err # NoErr
TaskErrors == Cardinality(FailedDownloads) + (IF ParentFailed THEN 1 ELSE 0)

\* What holds of the download group in every state.
C33_Safety ==
  /\ MergeReturned => (Downloading = {} /\ parent.pc # "running")
  /\ megErr = 0 <=> (FailedDownloads = {} /\ ~ParentFailed)
  /\ megErr \in Chunks => megErr \in FailedDownloads /\ ~dl[megErr].sawErr
  /\ megErr = NumChunks + 1 => ParentFailed
  /\ \A i \in FailedDownloads : i # megErr => dl[i].sawErr
  /\ TaskErrors <= faults
  /\ (MergeReturned /\ megErr # 0) =>
       /\ retErr = Err /\ wErr = Err
       /\ retErr = (IF megErr \in Chunks THEN dl[megErr].err ELSE parent.err)
       /\ mergeHist.merge = "none"

\* C33: in the merge download phase a failed chunk fetch does not cancel the other
\* fetches: a task fails only by a failed call of its own, and a task that ends
\* after another failed can still succeed; handleMergeTask returns only when every
\* started download and the parent open have ended, and the error it returns is
\* the first one a task returned, which later errors do not replace.
C33_FirstErrorAfterAllDownloads == []C33_Safety /\ [][megErr # 0 => megErr' = megErr]_vars

\* The handler returned the error of the chunk download that failed first; after
\* it the parent open failed as well, and another download ended after the failure
\* and put its chunk into the cache.
C33_Witness ==
  /\ MergeReturned
  /\ megErr \in Chunks
  /\ ParentFailed
  /\ retErr = Err
  /\ \E j \in Chunks :
       /\ dl[j].pc = "done" /\ dl[j].sawErr /\ dl[j].err = NoErr
       /\ TagKey(mergeData.Hashtrees[j].Tag) \in Keys(MergeCache)

====
